---- MODULE Spec2Model ----
(***************************************************************************)
(* Live captions for smart glasses: the caption formatting and display     *)
(* history engine (CaptionsFormatter) and the session controller that      *)
(* owns it (DisplayManager).                                               *)
(*                                                                         *)
(* A string is a sequence of one-character strings, so that trimming,      *)
(* joining, labelling and wrapping act on characters as the code does.     *)
(***************************************************************************)
EXTENDS Integers, Sequences, FiniteSets, TLC

(***************************************************************************)
(* Bounds of the model.                                                    *)
(***************************************************************************)
\* Largest history capacity (maxFinalTranscripts) the model uses.  The
\* session builds its formatters with the literal 30; the model scales that
\* literal down to this bound.
MaxCapacity == 2

(***************************************************************************)
(* JavaScript values and string primitives.                                *)
(***************************************************************************)
\* The value of an omitted argument or an unset field.
Undefined == "undefined"

\* A null text argument (text: string | null), kept apart from every string.
NullText == <<"null">>

WhitespaceChars == {" ", "\n", "\t"}

Max(a, b) == IF a >= b THEN a ELSE b
Min(a, b) == IF a <= b THEN a ELSE b

\* The positions of s whose character is (not) in the set.
PositionsIn(s, set) == {i \in 1..Len(s) : s[i] \in set}

MinOf(S) == CHOOSE x \in S : \A y \in S : x <= y
MaxOf(S) == CHOOSE x \in S : \A y \in S : x >= y

\* The number of leading characters of s that are in the set.
RECURSIVE LeadingRun(_, _, _)
LeadingRun(s, set, i) ==
  IF i > Len(s) \/ s[i] \notin set THEN i - 1 ELSE LeadingRun(s, set, i + 1)

\* The number of trailing characters of s that are in the set.
RECURSIVE TrailingRun(_, _, _)
TrailingRun(s, set, i) ==
  IF i < 1 \/ s[i] \notin set THEN Len(s) - i ELSE TrailingRun(s, set, i - 1)

\* String.prototype.trimStart
TrimStart(s) == SubSeq(s, LeadingRun(s, WhitespaceChars, 1) + 1, Len(s))

\* String.prototype.trimEnd
TrimEnd(s) == SubSeq(s, 1, Len(s) - TrailingRun(s, WhitespaceChars, Len(s)))

\* String.prototype.trim
Trim(s) == TrimEnd(TrimStart(s))

\* Array.prototype.join
RECURSIVE Join(_, _)
Join(parts, sep) ==
  IF parts = <<>> THEN <<>>
  ELSE IF Len(parts) = 1 THEN parts[1]
  ELSE parts[1] \o sep \o Join(Tail(parts), sep)

\* String.prototype.split("\n"): always at least one piece.
RECURSIVE Split(_)
Split(s) ==
  LET breaks == PositionsIn(s, {"\n"})
  IN IF breaks = {} THEN <<s>>
     ELSE LET p == MinOf(breaks)
          IN <<SubSeq(s, 1, p - 1)>> \o Split(SubSeq(s, p + 1, Len(s)))

\* Array.prototype.slice(-n): a negative start counts from the end, and -0
\* is 0, the start of the array.
SliceFromEnd(s, n) ==
  IF n = 0 THEN s
  ELSE SubSeq(s, Max(Len(s) - n, 0) + 1, Len(s))

\* Array.prototype.shift
Shift(s) == IF s = <<>> THEN <<>> ELSE Tail(s)

(***************************************************************************)
(* Display profiles, glyph metrics and the line wrapper.  These come from  *)
(* the display-utils package the formatter imports; the model follows the  *)
(* contract the formatter relies on, with pixel widths scaled down to      *)
(* small integers (one unit for every glyph of the model's alphabet).      *)
(***************************************************************************)
\* The profile catalog: display width and maximum line count.
Profile(id) ==
  CASE id = "g1"   -> [id |-> "g1",   displayWidthPx |-> 8, maxLines |-> 5]
    [] id = "z100" -> [id |-> "z100", displayWidthPx |-> 6, maxLines |-> 3]
    [] id = "nex"  -> [id |-> "nex",  displayWidthPx |-> 7, maxLines |-> 4]

G1_PROFILE == Profile("g1")

\* Glyphs the width table maps.
MappedGlyphs ==
  {"a", "b", "c", "d", "e", "f", "1", "2", "[", "]", ":", " ", "-"}

\* TextMeasurer: the width of one character, the default for unmapped ones.
WidthOf(c) == IF c \in MappedGlyphs THEN 1 ELSE 2

IsUnmappedGlyph(c) == c \notin MappedGlyphs

\* TextMeasurer: the width of a text, the sum of the widths of its
\* characters (one unit each, one more for each unmapped one); zero for
\* the empty text.
Measure(s) == Len(s) + Len(SelectSeq(s, IsUnmappedGlyph))

BreakModes == {"character", "word", "strict-word"}

\* Minimum run of characters before a hyphen (wrapper option).
MinCharsBeforeHyphen == 3

\* The words of a paragraph: the non-empty runs between whitespace
\* characters (whitespace at a break point is consumed).  gaps is the set
\* of whitespace positions not yet passed, from the start position on.
RECURSIVE WordsFrom(_, _, _)
WordsFrom(p, start, gaps) ==
  IF gaps = {}
  THEN (IF start > Len(p) THEN <<>> ELSE <<SubSeq(p, start, Len(p))>>)
  ELSE LET g == MinOf(gaps)
       IN (IF g > start THEN <<SubSeq(p, start, g - 1)>> ELSE <<>>)
          \o WordsFrom(p, g + 1, gaps \ {g})

WordsOf(p) == WordsFrom(p, 1, PositionsIn(p, WhitespaceChars))

\* The longest proper prefix of word w that fits the budget with a hyphen.
FitPrefix(w, budget) ==
  LET fits == {k \in 0..(Len(w) - 1) :
                 Measure(SubSeq(w, 1, k)) + WidthOf("-") <= budget}
  IN IF fits = {} THEN 0 ELSE MaxOf(fits)

\* Greedy filling of lines with the words of one paragraph.
RECURSIVE FillLines(_, _, _, _, _)
FillLines(words, cur, lines, maxWidthPx, breakMode) ==
  IF words = <<>> THEN (IF cur = <<>> THEN lines ELSE Append(lines, cur))
  ELSE
    LET w == Head(words)
        rest == Tail(words)
    IN IF cur = <<>>
       THEN IF Measure(w) <= maxWidthPx
            THEN FillLines(rest, w, lines, maxWidthPx, breakMode)
            ELSE IF breakMode = "strict-word"
            THEN \* an over-width word overflows its line
                 FillLines(rest, <<>>, Append(lines, w), maxWidthPx, breakMode)
            ELSE \* hyphenate: the word is split at the width budget
                 LET k == Max(FitPrefix(w, maxWidthPx), 1)
                 IN FillLines(<<SubSeq(w, k + 1, Len(w))>> \o rest, <<>>,
                              Append(lines, SubSeq(w, 1, k) \o <<"-">>),
                              maxWidthPx, breakMode)
       ELSE IF Measure(cur) + WidthOf(" ") + Measure(w) <= maxWidthPx
            THEN FillLines(rest, cur \o <<" ">> \o w, lines, maxWidthPx, breakMode)
            ELSE LET room == maxWidthPx - Measure(cur) - WidthOf(" ")
                     k == FitPrefix(w, room)
                 IN IF /\ breakMode = "character"
                       /\ Measure(w) > maxWidthPx
                       /\ k >= MinCharsBeforeHyphen
                    THEN \* split inside the word, on the current line
                         FillLines(<<SubSeq(w, k + 1, Len(w))>> \o rest, <<>>,
                                   Append(lines, cur \o <<" ">> \o SubSeq(w, 1, k) \o <<"-">>),
                                   maxWidthPx, breakMode)
                    ELSE FillLines(words, <<>>, Append(lines, cur),
                                   maxWidthPx, breakMode)

\* One paragraph (the text between forced line breaks): never zero lines.
WrapParagraph(p, maxWidthPx, breakMode) ==
  LET words == WordsOf(p)
  IN IF words = <<>> THEN << <<>> >>
     ELSE FillLines(words, <<>>, <<>>, maxWidthPx, breakMode)

RECURSIVE WrapParagraphs(_, _, _)
WrapParagraphs(ps, maxWidthPx, breakMode) ==
  IF ps = <<>> THEN <<>>
  ELSE WrapParagraph(Head(ps), maxWidthPx, breakMode)
       \o WrapParagraphs(Tail(ps), maxWidthPx, breakMode)

\* TextWrapper.wrap with maxLines and maxBytes unbounded: every line the
\* text requires, and the width of each.
wrap(text, maxWidthPx, breakMode) ==
  LET ls == WrapParagraphs(Split(text), maxWidthPx, breakMode)
  IN [lines |-> ls,
      lineMetrics |-> [i \in 1..Len(ls) |-> Measure(ls[i])]]

(***************************************************************************)
(* CaptionsFormatter.  A formatter is a record of its fields; a method is   *)
(* an operator from the formatter and the arguments.                       *)
(***************************************************************************)
SpeakerIds == {"1", "2"}
OptSpeakerIds == SpeakerIds \cup {Undefined}

\* An optional boolean argument (speakerChanged?: boolean).
OptBooleans == {"undefined", "false", "true"}
Truthy(b) == b = "true"

\* new CaptionsFormatter(profile, options), every option given.
NewCaptionsFormatter(profileId, options) ==
  [profile |-> profileId,
   finalTranscriptHistory |-> <<>>,
   maxFinalTranscripts |-> options.maxFinalTranscripts,
   partialSpeakerId |-> Undefined,
   partialHadSpeakerChange |-> FALSE,
   displayWidthPx |-> options.displayWidthPx,
   maxLines |-> options.maxLines,
   breakMode |-> options.breakMode]

\* The speaker label placed before a text that opens a turn.
SpeakerLabel(speakerId) == <<"[", speakerId, "]", ":", " ">>

\* Fault model: a labelled entry is joined with a space, without the forced
\* line break.
AppendEntryNoBreak(res, text, speakerId, speakerChanged) ==
  IF speakerChanged /\ speakerId # Undefined
  THEN (IF Len(res) > 0 THEN res \o <<" ">> ELSE res)
       \o SpeakerLabel(speakerId) \o text
  ELSE (IF Len(res) > 0 THEN res \o <<" ">> ELSE res) \o text

\* buildDisplayText: one step of its loop over the history, and the partial.
AppendEntry(res, text, speakerId, speakerChanged) ==
  IF speakerChanged /\ speakerId # Undefined
  THEN (IF Len(res) > 0 THEN res \o <<"\n">> ELSE res)
       \o SpeakerLabel(speakerId) \o text
  ELSE (IF Len(res) > 0 THEN res \o <<" ">> ELSE res) \o text

RECURSIVE RenderHistory(_, _)
RenderHistory(h, res) ==
  IF h = <<>> THEN res
  ELSE RenderHistory(Tail(h),
         AppendEntry(res, Head(h).text, Head(h).speakerId, Head(h).hadSpeakerChange))

buildDisplayText(f, partialText, partialSpeakerId, partialSpeakerChanged) ==
  LET res == RenderHistory(f.finalTranscriptHistory, <<>>)
  IN IF partialText # <<>>
     THEN AppendEntry(res, partialText, partialSpeakerId, partialSpeakerChanged)
     ELSE res

\* Fault model: the window keeps the first maxLines lines, not the last.
wrapAndFormatKeepsTop(f, displayText) ==
  LET res == wrap(displayText, f.displayWidthPx, f.breakMode)
      lines == IF Len(res.lines) > f.maxLines
               THEN SubSeq(res.lines, 1, f.maxLines)
               ELSE res.lines
  IN [lines |-> lines,
      displayText |-> Join(lines, <<"\n">>),
      truncated |-> Len(res.lines) > f.maxLines,
      lineMetrics |-> SubSeq(res.lineMetrics, 1, Len(lines))]

\* Fault model: truncated reported as soon as the window is full.
wrapAndFormatFlagsFullWindow(f, displayText) ==
  LET res == wrap(displayText, f.displayWidthPx, f.breakMode)
      lines == IF Len(res.lines) > f.maxLines
               THEN SliceFromEnd(res.lines, f.maxLines)
               ELSE res.lines
  IN [lines |-> lines,
      displayText |-> Join(lines, <<"\n">>),
      truncated |-> Len(res.lines) >= f.maxLines,
      lineMetrics |-> SliceFromEnd(res.lineMetrics, f.maxLines)]

\* Fault model: blank lines are dropped from the window.
wrapAndFormatDropsBlankLines(f, displayText) ==
  LET res == wrap(displayText, f.displayWidthPx, f.breakMode)
      lines == IF Len(res.lines) > f.maxLines
               THEN SliceFromEnd(res.lines, f.maxLines)
               ELSE res.lines
      kept == SelectSeq(lines, LAMBDA l : l # <<>>)
  IN [lines |-> kept,
      displayText |-> Join(kept, <<"\n">>),
      truncated |-> Len(res.lines) > f.maxLines,
      lineMetrics |-> SubSeq(SliceFromEnd(res.lineMetrics, f.maxLines), 1,
                             Len(kept))]

wrapAndFormat(f, displayText) ==
  LET res == wrap(displayText, f.displayWidthPx, f.breakMode)
      lines == IF Len(res.lines) > f.maxLines
               THEN SliceFromEnd(res.lines, f.maxLines)
               ELSE res.lines
  IN [lines |-> lines,
      displayText |-> Join(lines, <<"\n">>),
      truncated |-> Len(res.lines) > f.maxLines,
      lineMetrics |-> SliceFromEnd(res.lineMetrics, f.maxLines)]

\* while (history.length > maxFinalTranscripts) history.shift()
RECURSIVE ShiftWhileOver(_, _)
ShiftWhileOver(h, max) ==
  IF Len(h) > max THEN ShiftWhileOver(Shift(h), max) ELSE h

\* Fault model: on overflow the newest entry is dropped (pop, not shift).
addToHistoryEvictsNewest(f, transcript, speakerId, speakerChanged) ==
  IF Trim(transcript) = <<>> THEN f
  ELSE [f EXCEPT !.finalTranscriptHistory =
          SubSeq(Append(@, [text |-> transcript,
                            speakerId |-> speakerId,
                            hadSpeakerChange |-> speakerChanged]),
                 1, Min(Len(@) + 1, f.maxFinalTranscripts))]

addToHistory(f, transcript, speakerId, speakerChanged) ==
  IF Trim(transcript) = <<>> THEN f
  ELSE [f EXCEPT !.finalTranscriptHistory =
          ShiftWhileOver(
            Append(@, [text |-> transcript,
                       speakerId |-> speakerId,
                       hadSpeakerChange |-> speakerChanged]),
            f.maxFinalTranscripts)]

\* A method that changes the formatter and returns a FormatResult is two
\* operators: the formatter after the call, and (suffix Result) the value
\* the call returns.
\* Fault model: an interim text is stored like a final one.
processInterimStores(f, text, speakerId, speakerChanged) ==
  IF text = <<>> THEN f
  ELSE [f EXCEPT !.finalTranscriptHistory =
          ShiftWhileOver(
            Append(@, [text |-> text,
                       speakerId |-> speakerId,
                       hadSpeakerChange |-> Truthy(speakerChanged)]),
            f.maxFinalTranscripts)]

processInterim(f, text, speakerId, speakerChanged) ==
  IF Truthy(speakerChanged) /\ speakerId # Undefined
  THEN [f EXCEPT !.partialSpeakerId = speakerId,
                 !.partialHadSpeakerChange = TRUE]
  ELSE IF speakerId # Undefined /\ speakerId # f.partialSpeakerId
  THEN [f EXCEPT !.partialSpeakerId = speakerId,
                 !.partialHadSpeakerChange = TRUE]
  ELSE f

processInterimResult(f, text, speakerId, speakerChanged) ==
  LET f1 == processInterim(f, text, speakerId, speakerChanged)
  IN wrapAndFormat(f1, buildDisplayText(f1, text, f1.partialSpeakerId,
                                        f1.partialHadSpeakerChange))

\* Fault model: the final uses its own arguments only and ignores what the
\* interims tracked.
processFinalIgnoresPartial(f, text, speakerId, speakerChanged) ==
  LET f1 == [f EXCEPT !.partialSpeakerId = Undefined,
                      !.partialHadSpeakerChange = FALSE]
  IN IF text # <<>>
     THEN addToHistory(f1, text, speakerId, Truthy(speakerChanged))
     ELSE f1

\* Fault model: the final is stored without the checks for an empty text.
processFinalStoresEmpty(f, text, speakerId, speakerChanged) ==
  LET finalSpeakerId == IF speakerId # Undefined THEN speakerId
                        ELSE f.partialSpeakerId
      finalSpeakerChanged == IF Truthy(speakerChanged) THEN TRUE
                             ELSE f.partialHadSpeakerChange
  IN [f EXCEPT !.partialSpeakerId = Undefined,
               !.partialHadSpeakerChange = FALSE,
               !.finalTranscriptHistory =
                 ShiftWhileOver(
                   Append(@, [text |-> text,
                              speakerId |-> finalSpeakerId,
                              hadSpeakerChange |-> finalSpeakerChanged]),
                   f.maxFinalTranscripts)]

processFinal(f, text, speakerId, speakerChanged) ==
  LET finalSpeakerId == IF speakerId # Undefined THEN speakerId
                        ELSE f.partialSpeakerId
      finalSpeakerChanged == IF Truthy(speakerChanged) THEN TRUE
                             ELSE f.partialHadSpeakerChange
      f1 == [f EXCEPT !.partialSpeakerId = Undefined,
                      !.partialHadSpeakerChange = FALSE]
  IN IF text # <<>>
     THEN addToHistory(f1, text, finalSpeakerId, finalSpeakerChanged)
     ELSE f1

processFinalResult(f, text, speakerId, speakerChanged) ==
  LET f1 == processFinal(f, text, speakerId, speakerChanged)
  IN wrapAndFormat(f1, buildDisplayText(f1, <<>>, Undefined, FALSE))

\* text?.trim() ?? ""
CleanText(text) == IF text = NullText THEN <<>> ELSE Trim(text)

processTranscription(f, text, isFinal, speakerId, speakerChanged) ==
  IF ~isFinal
  THEN processInterim(f, CleanText(text), speakerId, speakerChanged)
  ELSE processFinal(f, CleanText(text), speakerId, speakerChanged)

processTranscriptionResult(f, text, isFinal, speakerId, speakerChanged) ==
  IF ~isFinal
  THEN processInterimResult(f, CleanText(text), speakerId, speakerChanged)
  ELSE processFinalResult(f, CleanText(text), speakerId, speakerChanged)

getFinalTranscriptHistory(f) == f.finalTranscriptHistory

RECURSIVE EntryTexts(_)
EntryTexts(h) == IF h = <<>> THEN <<>> ELSE <<Head(h).text>> \o EntryTexts(Tail(h))

\* Fault model: the texts are joined with no separator.
getCombinedTranscriptHistoryNoSeparator(f) ==
  Join(EntryTexts(f.finalTranscriptHistory), <<>>)

getCombinedTranscriptHistory(f) ==
  Join(EntryTexts(f.finalTranscriptHistory), <<" ">>)

\* Fault model: clear() empties the history and keeps the partial tracking.
clearKeepsPartial(f) == [f EXCEPT !.finalTranscriptHistory = <<>>]

clear(f) ==
  [f EXCEPT !.finalTranscriptHistory = <<>>,
            !.partialSpeakerId = Undefined,
            !.partialHadSpeakerChange = FALSE]

setMaxFinalTranscripts(f, max) ==
  [f EXCEPT !.maxFinalTranscripts = max,
            !.finalTranscriptHistory = ShiftWhileOver(@, max)]

(***************************************************************************)
(* DisplayManager: the pure parts.                                         *)
(***************************************************************************)
\* Device model names the glasses may report; Undefined is "no model".
DeviceModels ==
  {Undefined, "Even Realities G1", "Vuzix Z100", "Mentra Nex", "Other"}

\* Case-insensitive substring match against the known families, G1 for
\* no model and for unknown models.
getProfileForModel(modelName) ==
  CASE modelName = Undefined           -> "g1"
    [] modelName = "Even Realities G1" -> "g1"
    [] modelName = "Vuzix Z100"        -> "z100"
    [] modelName = "Mentra Nex"        -> "nex"
    [] OTHER                           -> "g1"

\* Math.round of a non-negative rational num/den: floor(x + 1/2).
RoundDiv(num, den) == (2 * num + den) \div (2 * den)

WidthSettings == {0, 1, 2}

\* Fault model: the scaled width is rounded down.
calculateDisplayWidthFloors(widthSetting, profileId) ==
  LET maxWidthPx == Profile(profileId).displayWidthPx
  IN CASE widthSetting = 0 -> (maxWidthPx * 70) \div 100
       [] widthSetting = 1 -> (maxWidthPx * 85) \div 100
       [] OTHER            -> maxWidthPx

calculateDisplayWidth(widthSetting, profileId) ==
  LET maxWidthPx == Profile(profileId).displayWidthPx
  IN CASE widthSetting = 0 -> RoundDiv(maxWidthPx * 70, 100)
       [] widthSetting = 1 -> RoundDiv(maxWidthPx * 85, 100)
       [] OTHER            -> maxWidthPx

\* The formatter the session builds: capacity fixed, the rest from the
\* current settings.
SessionFormatter(profileId, wordBreaking, displayWidthPx, maxLines) ==
  NewCaptionsFormatter(profileId,
    [maxFinalTranscripts |-> MaxCapacity,
     breakMode |-> IF wordBreaking THEN "character" ELSE "word",
     displayWidthPx |-> displayWidthPx,
     maxLines |-> maxLines])

\* Fault model: the replay passes no turn flag.
RECURSIVE RestoreHistoryDropsTurns(_, _)
RestoreHistoryDropsTurns(f, previousHistory) ==
  IF previousHistory = <<>> THEN f
  ELSE LET entry == Head(previousHistory)
       IN RestoreHistoryDropsTurns(
            processTranscription(f, entry.text, TRUE, entry.speakerId,
                                 "undefined"),
            Tail(previousHistory))

\* "Restore transcript history": each stored entry is processed as a final
\* with its own speaker id and turn flag.
RECURSIVE RestoreHistory(_, _)
RestoreHistory(f, previousHistory) ==
  IF previousHistory = <<>> THEN f
  ELSE LET entry == Head(previousHistory)
       IN RestoreHistory(
            processTranscription(f, entry.text, TRUE, entry.speakerId,
              IF entry.hadSpeakerChange THEN "true" ELSE "false"),
            Tail(previousHistory))

\* The rebuild of updateSettings and updateProfile: a new formatter from the
\* current settings, then the replay of the previous formatter's history.
RebuildFormatter(previous, profileId, wordBreaking, displayWidthPx, maxLines) ==
  RestoreHistory(
    SessionFormatter(profileId, wordBreaking, displayWidthPx, maxLines),
    getFinalTranscriptHistory(previous))

\* The formatter after refreshDisplay(): with a history it processes an
\* empty final to read the display back, without one it is left alone.
RefreshedFormatter(f) ==
  IF getFinalTranscriptHistory(f) = <<>> THEN f
  ELSE processTranscription(f, <<>>, TRUE, Undefined, "false")

\* Fault model: the requested line count is capped by the profile only.
ClampLinesNoFloor(numberOfLines, profileId) ==
  Min(numberOfLines, Profile(profileId).maxLines)

\* updateSettings: Math.min(Math.max(2, numberOfLines), profile.maxLines)
ClampLines(numberOfLines, profileId) ==
  Min(Max(2, numberOfLines), Profile(profileId).maxLines)

\* Fault model: only the first speaker of a session is detected.
SpeakerChangedOnFirst(last, speakerId) ==
  speakerId # Undefined /\ last = Undefined

\* Fault model: every event that carries a speaker id opens a turn.
SpeakerChangedAlways(last, speakerId) == speakerId # Undefined

\* processAndDisplay's turn detection.
SpeakerChanged(last, speakerId) == speakerId # Undefined /\ speakerId # last

PunctuationChars == {".", ",", ";", ":", "!", "?"}
DigitChars == {"1", "2"}

DropWhile(s, set) == SubSeq(s, LeadingRun(s, set, 1) + 1, Len(s))

\* The length of the match of /^\[\d+\]:\s*/ at the start of a line, 0 when
\* the line does not start with a speaker label.
LabelMatchLen(line) ==
  LET digits == Len(Tail(line)) - Len(DropWhile(Tail(line), DigitChars))
      after == SubSeq(line, digits + 2, Len(line))
  IN IF line = <<>> \/ Head(line) # "[" THEN 0
     ELSE IF digits = 0 \/ Len(after) < 2 THEN 0
     ELSE IF after[1] # "]" \/ after[2] # ":" THEN 0
     ELSE LET tail == SubSeq(after, 3, Len(after))
          IN digits + 3 + (Len(tail) - Len(TrimStart(tail)))

CleanLine(line) ==
  LET n == LabelMatchLen(line)
  IN IF n > 0
     THEN SubSeq(line, 1, n)
          \o Trim(DropWhile(SubSeq(line, n + 1, Len(line)), PunctuationChars))
     ELSE Trim(DropWhile(line, PunctuationChars))

RECURSIVE CleanLines(_)
CleanLines(ls) ==
  IF ls = <<>> THEN <<>> ELSE <<CleanLine(Head(ls))>> \o CleanLines(Tail(ls))

cleanTranscriptText(text) == Join(CleanLines(Split(text)), <<"\n">>)

(***************************************************************************)
(* State.                                                                  *)
(***************************************************************************)
VARIABLES
  formatter,             \* the CaptionsFormatter (DisplayManager.formatter)
  result,                \* the FormatResult the last operation obtained
                         \* from processTranscription (NoResult: none)
  call,                  \* the last call made: operation and arguments
  lastSpeakerId,         \* DisplayManager.lastSpeakerId
  currentProfile,        \* DisplayManager.currentProfile (its id)
  currentDisplayWidthPx, \* DisplayManager.currentDisplayWidthPx
  currentMaxLines,       \* DisplayManager.currentMaxLines
  currentWordBreaking,   \* DisplayManager.currentWordBreaking
  currentWidthSetting,   \* DisplayManager.currentWidthSetting
  inactivityTimer,       \* "null", "pending" or "fired"
  glasses,               \* the last showTextWall call (the device sink)
  preview,               \* the last broadcastDisplayPreview call
  emitted,               \* how many calls the last operation made to each sink
  returned,              \* an array a caller holds, obtained from
                         \* getFinalTranscriptHistory: its elements as
                         \* references (see Held)
  storage,               \* SimpleStorage: the persisted display settings
  settingsTask,          \* where the setter call in flight stands: "idle",
                         \* "apply" (awaiting in applyToProcessor) or
                         \* "broadcast" (getAll() of broadcastSettingsUpdate)
  settingsBroadcast,     \* the last settings_update message broadcast
  sseClients,            \* TranscriptsManager.sseClients
  transcripts,           \* TranscriptsManager.transcripts
  awaiting,              \* the handleTranscription calls suspended at
                         \* `await getLanguage()`, in order of arrival
  rebuild,               \* the updateSettings / updateProfile call on the
                         \* stack: where it stands, and its local
                         \* previousHistory
  processed,             \* the finals processAndDisplay has stored, in the
                         \* order it processed them (the newest
                         \* MaxCapacity of them)
  timerQueue,            \* the runtime's pending setTimeout timers of this
                         \* DisplayManager: the ticks each has left, and
                         \* whether this.inactivityTimer refers to it
  sinceEvent,            \* ticks since processAndDisplay last returned
                         \* (counted up to TimeoutTicks)
  setters,               \* the SettingsManager calls in flight: where each
                         \* is and what it has read from storage
  disposed,              \* whether UserSession.dispose() has run
  app,                   \* LiveCaptionsApp and the UserSession registry:
                         \* the sessions of one user, their subscriptions
                         \* and the open event stream
  hook                   \* the useTranscripts hook of a webview

sessionVars == <<lastSpeakerId, currentProfile, currentDisplayWidthPx,
                 currentMaxLines, currentWordBreaking, currentWidthSetting,
                 inactivityTimer, glasses, preview>>
vars == <<formatter, result, call, lastSpeakerId, currentProfile,
          currentDisplayWidthPx, currentMaxLines, currentWordBreaking,
          currentWidthSetting, inactivityTimer, glasses, preview, emitted,
          returned, storage, settingsTask, settingsBroadcast, sseClients,
          transcripts, awaiting, rebuild, processed, timerQueue,
          sinceEvent, setters, disposed, app, hook>>

\* State of the session's other managers, which neither the formatter nor
\* the DisplayManager touches.
settingsVars == <<storage, settingsTask, settingsBroadcast>>
transcriptVars == <<sseClients, transcripts, awaiting>>
rebuildVars == <<rebuild, processed>>
clockVars == <<timerQueue, sinceEvent>>
appVars == <<setters, disposed, app, hook>>
pipelineVars ==
  <<settingsVars, transcriptVars, rebuildVars, clockVars, appVars>>

\* Texts a caller may pass: null, empty, whitespace only, a short word with
\* surrounding whitespace, a long word.
TextInputs ==
  {NullText, <<>>, <<" ">>, <<" ", "a", " ">>, <<"b", "c", "d", "e", "f">>}

NoResult ==
  [lines |-> <<>>, displayText |-> <<>>, truncated |-> FALSE,
   lineMetrics |-> <<>>]

\* A sink records its last call; durationMs is <<>> when the option is
\* undefined.
NoShow == [text |-> <<>>, durationMs |-> <<>>]
NoPreview == [text |-> <<>>, lines |-> <<>>, isFinal |-> FALSE]

Call(op, text, isFinal, threw) ==
  [op |-> op, text |-> text, isFinal |-> isFinal, threw |-> threw]

PlainCall(op) == Call(op, <<>>, FALSE, FALSE)

\* processAndDisplay(text, isFinal, speakerId), with the speaker id it was
\* given.
EventCall(text, isFinal, speakerId, threw) ==
  [op |-> "processAndDisplay", text |-> text, isFinal |-> isFinal,
   threw |-> threw, speakerId |-> speakerId]

\* Calls the last operation made to the device sink, to the preview
\* broadcast and to the transcript broadcast; the sinks whose call threw
\* (the device, SSE clients); the SSE clients whose send returned.
Emitted(toGlasses, toPreview) ==
  [glasses |-> toGlasses, preview |-> toPreview, transcript |-> 0,
   threw |-> {}, receivers |-> {}]

NoEmission == Emitted(0, 0)

\* Nothing is persisted yet: storage.get(key) returns undefined, written
\* <<>>; a stored value x is written <<x>>.
NoStorage == [displayLines |-> <<>>, displayWidth |-> <<>>]

\* The elements of an array a caller holds are references to entry objects:
\* k > 0 is the object at position k of the formatter's history, 0 an object
\* the formatter does not hold.  When the formatter drops its `evicted`
\* oldest entries the positions move down; a dropped object stays with the
\* caller alone.
Held(refs, evicted) ==
  [i \in DOMAIN refs |-> IF refs[i] > evicted THEN refs[i] - evicted ELSE 0]

\* Neither updateSettings nor updateProfile is on the stack, and none has
\* run.  After a call returned the record keeps what its locals were.
NoRebuild ==
  [pc |-> "idle", op |-> "none", previousHistory |-> <<>>, replayed |-> 0]

\* No SettingsManager call is in flight.
NoSetters == <<>>

\* The event streams a webview may hold open (/api/transcripts/stream).
Streams == {"s1", "s2"}

\* No session was started (UserSession.userSessions is empty) and no event
\* stream is open.
NoApp ==
  [sessions |-> <<>>, registry |-> <<>>, streams |-> [s \in Streams |-> 0]]

\* The useTranscripts hook before its effect ran: no EventSource, no
\* timer, connected false, error null, reconnectAttempt 0.  pc is where
\* the current connect() call is ("idle": none is running), attempt its
\* argument, esAttempt the argument of the connect() call that made the
\* EventSource.
NoHook ==
  [pc |-> "unmounted", attempt |-> 0, es |-> "none", esAttempt |-> 0,
   isConnecting |-> FALSE, connected |-> FALSE, error |-> "null",
   reconnectAttempt |-> 0, timers |-> <<>>, heartbeat |-> FALSE]

\* No settings_update message was broadcast yet.
NoSettingsUpdate == <<>>

\* Every object of the old history is dropped (a new array of new objects).
Detached(refs) == [i \in DOMAIN refs |-> 0]

\* Entries shifted out by an operation that took history `old` to `new`,
\* storing `pushed` new entries at the end.
EvictedCount(old, new, pushed) == Len(old) + pushed - Len(new)

(***************************************************************************)
(* A formatter used on its own, through its public methods.                *)
(***************************************************************************)
\* Options a caller constructs a formatter with.
FormatterOptions ==
  {[maxFinalTranscripts |-> MaxCapacity, breakMode |-> "character",
    displayWidthPx |-> 6, maxLines |-> 2],
   [maxFinalTranscripts |-> MaxCapacity, breakMode |-> "strict-word",
    displayWidthPx |-> 4, maxLines |-> 1]}

\* Texts and speaker ids the callers of the stand-alone formatter pass.
FormatterTexts == {NullText, <<" ", "a", " ">>, <<"b", "c", "d", "e", "f">>}
FormatterSpeakerIds == {Undefined, "1"}

InitSessionIdle ==
  /\ lastSpeakerId = Undefined
  /\ currentProfile = "g1"
  /\ currentDisplayWidthPx = G1_PROFILE.displayWidthPx
  /\ currentMaxLines = G1_PROFILE.maxLines
  /\ currentWordBreaking = TRUE
  /\ currentWidthSetting = 2
  /\ inactivityTimer = "null"
  /\ glasses = NoShow
  /\ preview = NoPreview
  /\ emitted = NoEmission
  /\ returned = <<>>
  /\ storage = NoStorage
  /\ settingsTask = "idle"
  /\ settingsBroadcast = NoSettingsUpdate
  /\ sseClients = {}
  /\ transcripts = <<>>
  /\ awaiting = <<>>
  /\ rebuild = NoRebuild
  /\ processed = <<>>
  /\ timerQueue = {}
  /\ sinceEvent = 0
  /\ setters = NoSetters
  /\ disposed = FALSE
  /\ app = NoApp
  /\ hook = NoHook

InitFormatter ==
  /\ \E options \in FormatterOptions :
       formatter = NewCaptionsFormatter("g1", options)
  /\ result = NoResult
  /\ call = PlainCall("new")
  /\ InitSessionIdle

\* processTranscription(text, isFinal, speakerId, speakerChanged), called on
\* the formatter directly.
ProcessTranscriptionWith(text, isFinal, speakerId, speakerChanged) ==
  /\ formatter' = processTranscription(formatter, text, isFinal, speakerId,
                                       speakerChanged)
  /\ result' = processTranscriptionResult(formatter, text, isFinal,
                                          speakerId, speakerChanged)
  /\ call' = Call("processTranscription", text, isFinal, FALSE)
  /\ returned' = Held(returned,
                      EvictedCount(formatter.finalTranscriptHistory,
                                   formatter'.finalTranscriptHistory,
                                   IF isFinal /\ CleanText(text) # <<>>
                                   THEN 1 ELSE 0))
  /\ emitted' = NoEmission
  /\ UNCHANGED <<sessionVars, pipelineVars>>

ProcessTranscription ==
  \E text \in FormatterTexts, isFinal \in BOOLEAN,
     speakerId \in FormatterSpeakerIds,
     speakerChanged \in {"undefined", "true"} :
    ProcessTranscriptionWith(text, isFinal, speakerId, speakerChanged)

SetMaxFinalTranscripts ==
  \E max \in 1..MaxCapacity :
    /\ formatter' = setMaxFinalTranscripts(formatter, max)
    /\ result' = NoResult
    /\ call' = PlainCall("setMaxFinalTranscripts")
    /\ returned' = Held(returned,
                        EvictedCount(formatter.finalTranscriptHistory,
                                     formatter'.finalTranscriptHistory,
                                     0))
    /\ emitted' = NoEmission
    /\ UNCHANGED <<sessionVars, pipelineVars>>

Clear ==
  /\ formatter' = clear(formatter)
  /\ result' = NoResult
  /\ call' = PlainCall("clear")
  /\ returned' = Detached(returned)
  /\ emitted' = NoEmission
  /\ UNCHANGED <<sessionVars, pipelineVars>>

NextFormatter == ProcessTranscription \/ SetMaxFinalTranscripts \/ Clear

SpecFormatter == InitFormatter /\ [][NextFormatter]_vars

(***************************************************************************)
(* A caller that keeps the array getFinalTranscriptHistory() returned and  *)
(* changes it, while the formatter goes on processing events.              *)
(***************************************************************************)
\* What the caller writes into an entry it holds.
CallerTexts == {<<"z">>}

\* Events the formatter processes meanwhile.
CallerEvent ==
  \E isFinal \in BOOLEAN, speakerChanged \in {"undefined", "true"} :
    ProcessTranscriptionWith(<<" ", "a", " ">>, isFinal, "1", speakerChanged)

\* return [...this.finalTranscriptHistory]: a new array of the same entry
\* objects.
GetFinalTranscriptHistory ==
  /\ returned' = [i \in 1..Len(formatter.finalTranscriptHistory) |-> i]
  /\ result' = NoResult
  /\ call' = PlainCall("getFinalTranscriptHistory")
  /\ emitted' = NoEmission
  /\ UNCHANGED <<formatter, sessionVars, pipelineVars>>

Reverse(s) == [i \in DOMAIN s |-> s[Len(s) + 1 - i]]

\* The caller pushes an object of its own, pops the last element or
\* reverses the array it holds.
MutateReturnedArray ==
  /\ \/ /\ Len(returned) <= MaxCapacity
        /\ returned' = Append(returned, 0)
     \/ /\ returned # <<>>
        /\ returned' = SubSeq(returned, 1, Len(returned) - 1)
     \/ /\ Len(returned) >= 2
        /\ returned' = Reverse(returned)
  /\ result' = NoResult
  /\ call' = PlainCall("mutateReturnedArray")
  /\ emitted' = NoEmission
  /\ UNCHANGED <<formatter, sessionVars, pipelineVars>>

\* The caller assigns a field of an element of the array it holds: the
\* object is the formatter's own when the formatter still holds it.
MutateReturnedEntry ==
  \E i \in DOMAIN returned :
    /\ IF returned[i] > 0
       THEN \/ \E text \in CallerTexts :
                 formatter' = [formatter EXCEPT
                   !.finalTranscriptHistory[returned[i]].text = text]
            \/ formatter' = [formatter EXCEPT
                 !.finalTranscriptHistory[returned[i]].hadSpeakerChange =
                   ~formatter.finalTranscriptHistory[returned[i]]
                      .hadSpeakerChange]
       ELSE UNCHANGED formatter
    /\ result' = NoResult
    /\ call' = PlainCall("mutateReturnedEntry")
    /\ emitted' = NoEmission
    /\ UNCHANGED <<returned, sessionVars, pipelineVars>>

NextCaller ==
  \/ CallerEvent
  \/ Clear
  \/ GetFinalTranscriptHistory
  \/ MutateReturnedArray
  \/ MutateReturnedEntry

SpecCaller == InitFormatter /\ [][NextCaller]_vars

(***************************************************************************)
(* The session: a DisplayManager driven by transcription events, settings  *)
(* changes, device changes and its inactivity timer.                       *)
(***************************************************************************)
\* Texts of the transcription events.
SessionTexts == {<<" ">>, <<" ", "b", "c", "d", "e", "f">>}

\* Arguments of updateSettings: Narrow, a line count under the minimum,
\* word breaking off; Medium, 3 lines.  (Wide, the profile's maximum and
\* word breaking on is the initial state.)
SettingsInputs ==
  {[displayWidth |-> 0, numberOfLines |-> 1, wordBreaking |-> FALSE],
   [displayWidth |-> 1, numberOfLines |-> 3, wordBreaking |-> TRUE]}

Init ==
  \E initialModel \in DeviceModels :
    LET profileId == getProfileForModel(initialModel)
    IN /\ currentProfile = profileId
       /\ currentDisplayWidthPx = Profile(profileId).displayWidthPx
       /\ currentMaxLines = Profile(profileId).maxLines
       /\ currentWordBreaking = TRUE
       /\ currentWidthSetting = 2
       /\ formatter = SessionFormatter(profileId, TRUE,
                                       Profile(profileId).displayWidthPx,
                                       Profile(profileId).maxLines)
       /\ lastSpeakerId = Undefined
       /\ inactivityTimer = "null"
       /\ glasses = NoShow
       /\ preview = NoPreview
       /\ emitted = NoEmission
       /\ returned = <<>>
       /\ storage = NoStorage
       /\ settingsTask = "idle"
       /\ settingsBroadcast = NoSettingsUpdate
       /\ sseClients = {}
       /\ transcripts = <<>>
       /\ awaiting = <<>>
       /\ rebuild = NoRebuild
       /\ processed = <<>>
       /\ timerQueue = {}
       /\ sinceEvent = 0
       /\ setters = NoSetters
       /\ disposed = FALSE
       /\ app = NoApp
       /\ hook = NoHook
       /\ result = NoResult
       /\ call = PlainCall("new")

\* Fault model: every text is shown with the duration of a final.
ShowOnGlassesAlwaysTimed(text, isFinal, sinkThrows, failing) ==
  /\ glasses' = [text |-> cleanTranscriptText(text), durationMs |-> <<20000>>]
  /\ preview' = [text |-> glasses'.text, lines |-> Split(glasses'.text),
                 isFinal |-> isFinal]
  /\ emitted' = Emitted(1, 1)

\* Fault model: the broadcast loop stops at the first client whose send
\* throws, so that no client is sent the preview once one failed.
ShowOnGlassesStopsAtFailure(text, isFinal, sinkThrows, failing) ==
  /\ IF sinkThrows
     THEN /\ UNCHANGED glasses
          /\ preview' = [text |-> cleanTranscriptText(text),
                         lines |-> Split(cleanTranscriptText(text)),
                         isFinal |-> isFinal]
     ELSE /\ glasses' = [text |-> cleanTranscriptText(text),
                         durationMs |-> IF isFinal THEN <<20000>> ELSE <<>>]
          /\ preview' = [text |-> glasses'.text,
                         lines |-> Split(glasses'.text), isFinal |-> isFinal]
  /\ emitted' = [Emitted(1, 1) EXCEPT
                   !.threw = (IF sinkThrows THEN {"glasses"} ELSE {})
                               \cup failing,
                   !.receivers = IF failing = {} THEN sseClients ELSE {}]

\* showOnGlasses(text, isFinal): both sinks are called with the one cleaned
\* text.  sinkThrows: showTextWall throws (the device shows nothing new);
\* failing: the SSE clients whose send throws.  Each exception is caught
\* where it is raised.
ShowOnGlasses(text, isFinal, sinkThrows, failing) ==
  /\ IF sinkThrows
     THEN /\ UNCHANGED glasses
          /\ preview' = [text |-> cleanTranscriptText(text),
                         lines |-> Split(cleanTranscriptText(text)),
                         isFinal |-> isFinal]
     ELSE /\ glasses' = [text |-> cleanTranscriptText(text),
                         durationMs |-> IF isFinal THEN <<20000>> ELSE <<>>]
          /\ preview' = [text |-> glasses'.text,
                         lines |-> Split(glasses'.text), isFinal |-> isFinal]
  /\ emitted' = [Emitted(1, 1) EXCEPT
                   !.threw = (IF sinkThrows THEN {"glasses"} ELSE {})
                               \cup failing,
                   !.receivers = sseClients \ failing]

\* processAndDisplay(text, isFinal, speakerId); resetInactivityTimer()
\* replaces the pending timer.  A null text throws at text.substring, after
\* the speaker was recorded.  sinks: whether showTextWall may return
\* (FALSE) or throw (TRUE); clients: the sets of SSE clients whose
\* send may throw.
ProcessAndDisplayOver(text, isFinal, speakerId, sinks, clients) ==
  LET speakerChanged == SpeakerChanged(lastSpeakerId, speakerId)
      flag == IF speakerChanged THEN "true" ELSE "false"
  IN /\ lastSpeakerId' = IF speakerChanged THEN speakerId ELSE lastSpeakerId
     /\ IF text = NullText
        THEN /\ call' = EventCall(text, isFinal, speakerId, TRUE)
             /\ result' = NoResult
             /\ emitted' = NoEmission
             /\ UNCHANGED <<formatter, returned, inactivityTimer, glasses,
                            preview>>
        ELSE /\ formatter' = processTranscription(formatter, text, isFinal,
                                                  speakerId, flag)
             /\ result' = processTranscriptionResult(formatter, text, isFinal,
                                                     speakerId, flag)
             /\ \E sinkThrows \in sinks, failing \in clients :
                  ShowOnGlasses(result'.displayText, isFinal, sinkThrows,
                                failing)
             /\ inactivityTimer' = "pending"
             /\ call' = EventCall(text, isFinal, speakerId, FALSE)
             /\ returned' = Held(returned,
                                 EvictedCount(formatter.finalTranscriptHistory,
                                              formatter'.finalTranscriptHistory,
                                              IF isFinal /\ CleanText(text) # <<>>
                                              THEN 1 ELSE 0))
     /\ UNCHANGED <<currentProfile, currentDisplayWidthPx, currentMaxLines,
                    currentWordBreaking, currentWidthSetting>>

\* processAndDisplay called while both sinks work.
ProcessAndDisplayWith(text, isFinal, speakerId) ==
  /\ ProcessAndDisplayOver(text, isFinal, speakerId, {FALSE}, {{}})
  /\ UNCHANGED pipelineVars

ProcessAndDisplay ==
  \E text \in SessionTexts, isFinal \in BOOLEAN, speakerId \in OptSpeakerIds :
    ProcessAndDisplayWith(text, isFinal, speakerId)

\* refreshDisplay() on the rebuilt formatter f.
RefreshDisplay(f) ==
  IF getFinalTranscriptHistory(f) = <<>>
  THEN /\ formatter' = RefreshedFormatter(f)
       /\ result' = NoResult
       /\ preview' = [text |-> <<>>, lines |-> << <<>> >>, isFinal |-> TRUE]
       /\ emitted' = Emitted(0, 1)
       /\ UNCHANGED glasses
  ELSE /\ formatter' = RefreshedFormatter(f)
       /\ result' = processTranscriptionResult(f, <<>>, TRUE, Undefined,
                                               "false")
       /\ IF Trim(result'.displayText) # <<>>
          THEN /\ glasses' = [text |-> cleanTranscriptText(result'.displayText),
                              durationMs |-> <<20000>>]
               /\ preview' = [text |-> glasses'.text,
                              lines |-> Split(glasses'.text), isFinal |-> TRUE]
               /\ emitted' = Emitted(1, 1)
          ELSE /\ emitted' = NoEmission
               /\ UNCHANGED <<glasses, preview>>

\* The DisplayManager's part of updateSettings(displayWidth, numberOfLines,
\* wordBreaking): the applied settings, the rebuilt formatter, the refresh.
UpdateSettingsWith(s) ==
  LET widthPx == calculateDisplayWidth(s.displayWidth, currentProfile)
      maxLines == ClampLines(s.numberOfLines, currentProfile)
  IN /\ currentWidthSetting' = s.displayWidth
     /\ currentDisplayWidthPx' = widthPx
     /\ currentMaxLines' = maxLines
     /\ currentWordBreaking' = s.wordBreaking
     /\ RefreshDisplay(RebuildFormatter(formatter, currentProfile,
                                        s.wordBreaking, widthPx, maxLines))
     /\ returned' = Detached(returned)
     /\ UNCHANGED <<currentProfile, lastSpeakerId, inactivityTimer>>

\* updateSettings(displayWidth, numberOfLines, wordBreaking)
UpdateSettings ==
  \E s \in SettingsInputs :
    /\ UpdateSettingsWith(s)
    /\ call' = PlainCall("updateSettings")
    /\ UNCHANGED pipelineVars

\* The device-model callback: updateProfile(newProfile) when the model maps
\* to another profile, nothing otherwise.
DeviceModelChanged ==
  \E modelName \in DeviceModels :
    LET newProfile == getProfileForModel(modelName)
        widthPx == calculateDisplayWidth(currentWidthSetting, newProfile)
        maxLines == Min(currentMaxLines, Profile(newProfile).maxLines)
    IN IF newProfile # currentProfile
       THEN /\ currentProfile' = newProfile
            /\ currentDisplayWidthPx' = widthPx
            /\ currentMaxLines' = maxLines
            /\ RefreshDisplay(RebuildFormatter(formatter, newProfile,
                                               currentWordBreaking, widthPx,
                                               maxLines))
            /\ call' = PlainCall("updateProfile")
            /\ returned' = Detached(returned)
            /\ UNCHANGED <<currentWordBreaking, currentWidthSetting,
                           lastSpeakerId, inactivityTimer, pipelineVars>>
       ELSE UNCHANGED vars

\* Fault model: the timeout callback blanks the display and leaves the
\* formatter and the speaker tracking as they are.
InactivityExpiredKeepsHistory ==
  /\ inactivityTimer = "pending"
  /\ glasses' = [text |-> <<>>, durationMs |-> <<1000>>]
  /\ inactivityTimer' = "fired"
  /\ result' = NoResult
  /\ call' = PlainCall("inactivityExpired")
  /\ emitted' = Emitted(1, 0)
  /\ UNCHANGED <<formatter, lastSpeakerId, returned, preview, currentProfile,
                 currentDisplayWidthPx, currentMaxLines, currentWordBreaking,
                 currentWidthSetting, pipelineVars>>

\* The inactivity timer fires, 40 s after the last processAndDisplay.
InactivityExpired ==
  /\ inactivityTimer = "pending"
  /\ formatter' = clear(formatter)
  /\ lastSpeakerId' = Undefined
  /\ glasses' = [text |-> <<>>, durationMs |-> <<1000>>]
  /\ inactivityTimer' = "fired"
  /\ result' = NoResult
  /\ call' = PlainCall("inactivityExpired")
  /\ emitted' = Emitted(1, 0)
  /\ returned' = Detached(returned)
  /\ UNCHANGED <<preview, currentProfile, currentDisplayWidthPx,
                 currentMaxLines, currentWordBreaking, currentWidthSetting,
                 pipelineVars>>

Next ==
  \/ ProcessAndDisplay
  \/ UpdateSettings
  \/ DeviceModelChanged
  \/ InactivityExpired

Spec == Init /\ [][Next]_vars

(***************************************************************************)
(* The session with its timer queue: a timeout that stays armed runs its   *)
(* callback (setTimeout, 40 s after the last processAndDisplay).           *)
(***************************************************************************)
SpecTimer == Spec /\ WF_vars(InactivityExpired)

(***************************************************************************)
(* One speaker talking: every event carries the speaker id of the first    *)
(* one, and the inactivity timer does not fire.                            *)
(***************************************************************************)
UtteranceTexts ==
  {<<" ">>, <<" ", "a", " ">>, <<" ", "b", "c", "d", "e", "f">>}

SameSpeakerEvent ==
  \E text \in UtteranceTexts, isFinal \in BOOLEAN, speakerId \in SpeakerIds :
    /\ lastSpeakerId \in {Undefined, speakerId}
    /\ ProcessAndDisplayWith(text, isFinal, speakerId)

SpecSameSpeaker == Init /\ [][SameSpeakerEvent]_vars

(***************************************************************************)
(* The SettingsManager: setters called by the REST handlers, persisting to *)
(* SimpleStorage and applying the settings to the DisplayManager.  A       *)
(* number x handed to a setter, and the string x.toString() it is stored   *)
(* as, are written as the integer 2x: 1.5 is 3.                            *)
(***************************************************************************)
Whole(i) == 2 * i

\* parseInt(x.toString(), 10): the digits before the decimal point.
parseInt(x) == IF x >= 0 THEN x \div 2 ELSE -((-x) \div 2)

getDisplayLines(st) ==
  IF st.displayLines = <<>> THEN 3 ELSE parseInt(st.displayLines[1])

getDisplayWidth(st) ==
  IF st.displayWidth = <<>> THEN 1
  ELSE LET parsed == parseInt(st.displayWidth[1])
       IN IF parsed < 0 \/ parsed > 2 THEN 1 ELSE parsed

\* Numbers the handlers pass: 1, 4 and 5.5 lines; widths 0, 1.5 and 3.
LineInputs == {Whole(1), Whole(4), 11}
WidthInputs == {Whole(0), 3, Whole(3)}

\* A setter call with its argument.
SettingCall(op, value, threw) ==
  [op |-> op, text |-> <<>>, isFinal |-> FALSE, threw |-> threw,
   value |-> value]

\* setDisplayLines(lines), up to its first await that yields to other work.
SetDisplayLines ==
  \E lines \in LineInputs :
    /\ settingsTask = "idle"
    /\ IF lines < Whole(2) \/ lines > Whole(5)
       THEN /\ call' = SettingCall("setDisplayLines", lines, TRUE)
            /\ UNCHANGED <<storage, settingsTask>>
       ELSE /\ storage' = [storage EXCEPT !.displayLines = <<lines>>]
            /\ settingsTask' = "apply"
            /\ call' = SettingCall("setDisplayLines", lines, FALSE)
    /\ result' = NoResult
    /\ emitted' = NoEmission
    /\ UNCHANGED <<formatter, sessionVars, returned, settingsBroadcast,
                   transcriptVars, rebuildVars, clockVars,
                 appVars>>

\* setDisplayWidth(width), likewise.
SetDisplayWidth ==
  \E width \in WidthInputs :
    /\ settingsTask = "idle"
    /\ IF width < Whole(0) \/ width > Whole(2)
       THEN /\ call' = SettingCall("setDisplayWidth", width, TRUE)
            /\ UNCHANGED <<storage, settingsTask>>
       ELSE /\ storage' = [storage EXCEPT !.displayWidth = <<width>>]
            /\ settingsTask' = "apply"
            /\ call' = SettingCall("setDisplayWidth", width, FALSE)
    /\ result' = NoResult
    /\ emitted' = NoEmission
    /\ UNCHANGED <<formatter, sessionVars, returned, settingsBroadcast,
                   transcriptVars, rebuildVars, clockVars,
                 appVars>>

\* applyToProcessor(): the stored settings are read back and handed to
\* updateSettings(displayWidth, displayLines), wordBreaking defaulting to
\* true.
ApplyToProcessor ==
  /\ settingsTask = "apply"
  /\ UpdateSettingsWith([displayWidth |-> getDisplayWidth(storage),
                         numberOfLines |-> getDisplayLines(storage),
                         wordBreaking |-> TRUE])
  /\ settingsTask' = "broadcast"
  /\ call' = PlainCall("applyToProcessor")
  /\ UNCHANGED <<storage, settingsBroadcast, transcriptVars,
                 rebuildVars, clockVars,
                 appVars>>

\* broadcastSettingsUpdate(): getAll() resolved, the message is sent.
BroadcastSettingsUpdate ==
  /\ settingsTask = "broadcast"
  /\ settingsBroadcast' = <<[displayLines |-> getDisplayLines(storage),
                            displayWidth |-> getDisplayWidth(storage)]>>
  /\ settingsTask' = "idle"
  /\ call' = PlainCall("broadcastSettingsUpdate")
  /\ result' = NoResult
  /\ emitted' = NoEmission
  /\ UNCHANGED <<formatter, sessionVars, returned, storage, transcriptVars,
                 rebuildVars, clockVars,
                 appVars>>

\* Transcription events arriving meanwhile.
SettingsEvent ==
  \E isFinal \in BOOLEAN, speakerId \in {Undefined, "1"} :
    ProcessAndDisplayWith(<<" ", "a", " ">>, isFinal, speakerId)

NextSettings ==
  \/ SetDisplayLines
  \/ SetDisplayWidth
  \/ ApplyToProcessor
  \/ BroadcastSettingsUpdate
  \/ SettingsEvent

SpecSettings == Init /\ [][NextSettings]_vars

(***************************************************************************)
(* The TranscriptsManager and the path of a transcription event:           *)
(* handleTranscription up to `await getLanguage()`, then its continuation, *)
(* which calls processAndDisplay.  Timestamps are left out.                *)
(***************************************************************************)
\* The stand-in for maxTranscripts (100), and the most handleTranscription
\* calls suspended at once.
MaxTranscripts == 2
MaxAwaiting == 2

SSEClients == {"c1", "c2"}

\* Array.prototype.slice(start)
Slice(s, start) ==
  IF start < 0 THEN SubSeq(s, Max(Len(s) + start, 0) + 1, Len(s))
  ELSE SubSeq(s, Min(start, Len(s)) + 1, Len(s))

RemoveAt(s, i) == SubSeq(s, 1, i - 1) \o SubSeq(s, i + 1, Len(s))

\* formatSpeakerId
formatSpeakerId(speakerId) ==
  IF speakerId = Undefined THEN <<"Speaker", " ", "1">>
  ELSE <<"Speaker", " ", speakerId>>

\* createEntry(data); "uuid" is the random id of an event without
\* utteranceId.
createEntry(data) ==
  [id |-> IF data.utteranceId # Undefined THEN data.utteranceId ELSE "uuid",
   utteranceId |-> IF data.utteranceId # Undefined THEN data.utteranceId
                   ELSE "null",
   speaker |-> formatSpeakerId(data.speakerId),
   text |-> data.text,
   isFinal |-> data.isFinal]

Finals(ts) == SelectSeq(ts, LAMBDA t : t.isFinal)
Interims(ts) == SelectSeq(ts, LAMBDA t : ~t.isFinal)

\* Fault model: every event of an utterance is pushed as a new entry.
updateByUtteranceIdAppends(ts, entry) ==
  LET placed == Append(ts, entry)
  IN IF Len(placed) > MaxTranscripts
     THEN Slice(Finals(placed), -(MaxTranscripts - Len(Interims(placed))))
          \o Interims(placed)
     ELSE placed

updateByUtteranceId(ts, entry) ==
  LET found == {i \in DOMAIN ts : ts[i].utteranceId = entry.utteranceId}
      placed == IF found # {} THEN [ts EXCEPT ![MinOf(found)] = entry]
                ELSE Append(ts, entry)
  IN IF Len(placed) > MaxTranscripts
     THEN Slice(Finals(placed), -(MaxTranscripts - Len(Interims(placed))))
          \o Interims(placed)
     ELSE placed

\* Fault model: the legacy interim is pushed without removing the pending
\* interims.
legacyUpdateInterimKeeps(ts, entry) == Append(ts, entry)

legacyUpdateInterim(ts, entry) == Append(Finals(ts), entry)

legacyReplaceInterim(ts, entry) ==
  LET placed == Append(Finals(ts), entry)
  IN IF Len(placed) > MaxTranscripts THEN Slice(placed, -MaxTranscripts)
     ELSE placed

\* Step 1 of handleTranscription: the transcript list.
UpdatedTranscripts(ts, data) ==
  IF data.utteranceId # Undefined
  THEN updateByUtteranceId(ts, createEntry(data))
  ELSE IF data.isFinal THEN legacyReplaceInterim(ts, createEntry(data))
  ELSE legacyUpdateInterim(ts, createEntry(data))

\* Events the subscription delivers: a null final and a whitespace final
\* without utteranceId, an interim and the final of utterance u1.
PipelineEvents ==
  {[text |-> NullText, isFinal |-> TRUE, utteranceId |-> Undefined,
    speakerId |-> Undefined],
   [text |-> <<" ">>, isFinal |-> TRUE, utteranceId |-> Undefined,
    speakerId |-> Undefined],
   [text |-> <<" ", "a", " ">>, isFinal |-> FALSE, utteranceId |-> "u1",
    speakerId |-> "1"],
   [text |-> <<" ", "a", " ">>, isFinal |-> TRUE, utteranceId |-> "u1",
    speakerId |-> "1"]}

\* Events delivered while sinks fail: a legacy interim and a final.
FaultEvents ==
  {[text |-> <<" ", "a", " ">>, isFinal |-> FALSE, utteranceId |-> Undefined,
    speakerId |-> "1"],
   [text |-> <<" ", "a", " ">>, isFinal |-> TRUE, utteranceId |-> Undefined,
    speakerId |-> "1"]}

AddSSEClient ==
  \E client \in SSEClients :
    /\ sseClients' = sseClients \cup {client}
    /\ call' = PlainCall("addSSEClient")
    /\ result' = NoResult
    /\ emitted' = NoEmission
    /\ UNCHANGED <<formatter, sessionVars, returned, settingsVars,
                   transcripts, awaiting,
                   rebuildVars, clockVars,
                 appVars>>

RemoveSSEClient ==
  \E client \in SSEClients :
    /\ sseClients' = sseClients \ {client}
    /\ call' = PlainCall("removeSSEClient")
    /\ result' = NoResult
    /\ emitted' = NoEmission
    /\ UNCHANGED <<formatter, sessionVars, returned, settingsVars,
                   transcripts, awaiting,
                   rebuildVars, clockVars,
                 appVars>>

\* handleTranscription(data) up to its await: the entry is placed in the
\* list, then broadcast(entry) reads message.text.substring, which throws
\* for a null text and rejects the call; otherwise every client is sent the
\* entry (a throwing send is caught) and the call suspends.
HandleTranscriptionOf(data, failing) ==
  /\ Len(awaiting) < MaxAwaiting
  /\ transcripts' = UpdatedTranscripts(transcripts, data)
  /\ IF data.text = NullText
     THEN /\ call' = Call("handleTranscription", data.text, data.isFinal,
                          TRUE)
          /\ emitted' = NoEmission
          /\ UNCHANGED awaiting
     ELSE /\ call' = Call("handleTranscription", data.text, data.isFinal,
                          FALSE)
          /\ emitted' = [NoEmission EXCEPT !.transcript = 1,
                                           !.threw = failing,
                                           !.receivers = sseClients \ failing]
          /\ awaiting' = Append(awaiting, data)
  /\ result' = NoResult
  /\ UNCHANGED <<formatter, sessionVars, returned, settingsVars, sseClients,
               rebuildVars, clockVars,
                 appVars>>

\* The continuation of the i-th suspended handleTranscription:
\* getLanguage() settled (no language is stored: "auto", no Pinyin
\* conversion) and processAndDisplay is called.
ResumeTranscriptionOf(i, sinkOutcomes, clientOutcomes) ==
  /\ ProcessAndDisplayOver(awaiting[i].text, awaiting[i].isFinal,
                           awaiting[i].speakerId, sinkOutcomes,
                           clientOutcomes)
  /\ awaiting' = RemoveAt(awaiting, i)
  /\ UNCHANGED <<settingsVars, sseClients, transcripts,
                 rebuildVars, clockVars,
                 appVars>>

\* The session with no SSE client connected and a working device.  Nothing
\* in the handler orders the continuations: whichever call's promise
\* settles runs.
HandleTranscription ==
  \E data \in PipelineEvents : HandleTranscriptionOf(data, {})

ResumeTranscription ==
  \E i \in DOMAIN awaiting : ResumeTranscriptionOf(i, {FALSE}, {{}})

NextPipeline == HandleTranscription \/ ResumeTranscription

SpecPipeline == Init /\ [][NextPipeline]_vars

\* The session with SSE clients coming and going, and sinks that throw.
HandleTranscriptionFailing ==
  \E data \in FaultEvents, failing \in SUBSET sseClients :
    HandleTranscriptionOf(data, failing)

ResumeTranscriptionFailing ==
  \E i \in DOMAIN awaiting :
    ResumeTranscriptionOf(i, BOOLEAN, SUBSET sseClients)

NextFaults ==
  \/ AddSSEClient
  \/ RemoveSSEClient
  \/ HandleTranscriptionFailing
  \/ ResumeTranscriptionFailing

\* The session of a G1 device.
InitG1 == Init /\ currentProfile = "g1"

SpecFaults == InitG1 /\ [][NextFaults]_vars

(***************************************************************************)
(* updateSettings and updateProfile statement by statement.  Both are      *)
(* synchronous (`: void`, no await between entry and return), so from the  *)
(* entry of one to its return no other handler of the session runs: a      *)
(* handler starts only when the stack is empty.                            *)
(***************************************************************************)
\* Fault model: a handler starts whatever is on the stack, as it could if
\* the rebuild awaited between its statements.
StackIgnored == TRUE

\* Neither updateSettings nor updateProfile is running.
StackEmpty == rebuild.pc = "idle"

\* Texts of the events: two words, to tell the finals apart.
RebuildTexts == {<<"a">>, <<"b">>}

\* A transcription event: processAndDisplay(text, isFinal, speakerId).
RebuildEvent ==
  \E text \in RebuildTexts, isFinal \in BOOLEAN :
    /\ StackEmpty
    /\ ProcessAndDisplayOver(text, isFinal, Undefined, {FALSE}, {{}})
    /\ processed' = IF isFinal /\ CleanText(text) # <<>>
                    THEN SliceFromEnd(Append(processed, CleanText(text)),
                                      MaxCapacity)
                    ELSE processed
    /\ UNCHANGED <<settingsVars, transcriptVars, rebuild, clockVars,
                 appVars>>

\* What a statement of the rebuild leaves alone.
RebuildStepKeeps ==
  /\ result' = NoResult
  /\ emitted' = NoEmission
  /\ call' = PlainCall(rebuild'.op)
  /\ UNCHANGED <<lastSpeakerId, inactivityTimer, glasses, preview,
                 settingsVars, transcriptVars, processed, clockVars,
                 appVars>>

\* updateSettings(displayWidth, numberOfLines, wordBreaking) from its entry
\* to `const previousHistory = this.formatter.getFinalTranscriptHistory()`.
UpdateSettingsEnter ==
  \E s \in SettingsInputs :
    /\ StackEmpty
    /\ currentWidthSetting' = s.displayWidth
    /\ currentDisplayWidthPx' =
         calculateDisplayWidth(s.displayWidth, currentProfile)
    /\ currentMaxLines' = ClampLines(s.numberOfLines, currentProfile)
    /\ currentWordBreaking' = s.wordBreaking
    /\ rebuild' = [pc |-> "snapshot", op |-> "updateSettings",
                   previousHistory |-> getFinalTranscriptHistory(formatter),
                   replayed |-> 0]
    /\ RebuildStepKeeps
    /\ UNCHANGED <<formatter, returned, currentProfile>>

\* updateProfile(newProfile), called by the device-model callback when the
\* model maps to another profile: the snapshot, then the new settings.
UpdateProfileEnter ==
  \E modelName \in DeviceModels :
    LET newProfile == getProfileForModel(modelName)
    IN /\ StackEmpty
       /\ newProfile # currentProfile
       /\ rebuild' = [pc |-> "snapshot", op |-> "updateProfile",
                      previousHistory |-> getFinalTranscriptHistory(formatter),
                      replayed |-> 0]
       /\ currentProfile' = newProfile
       /\ currentDisplayWidthPx' =
            calculateDisplayWidth(currentWidthSetting, newProfile)
       /\ currentMaxLines' = Min(currentMaxLines, Profile(newProfile).maxLines)
       /\ RebuildStepKeeps
       /\ UNCHANGED <<formatter, returned, currentWordBreaking,
                      currentWidthSetting>>

\* this.formatter = new CaptionsFormatter(profile, {...})
CreateFormatter ==
  /\ rebuild.pc = "snapshot"
  /\ formatter' = SessionFormatter(currentProfile, currentWordBreaking,
                                   currentDisplayWidthPx, currentMaxLines)
  /\ rebuild' = [rebuild EXCEPT !.pc = "replay"]
  /\ returned' = Detached(returned)
  /\ RebuildStepKeeps
  /\ UNCHANGED <<currentProfile, currentDisplayWidthPx, currentMaxLines,
                 currentWordBreaking, currentWidthSetting>>

\* One turn of `for (const entry of previousHistory)`.
ReplayEntry ==
  /\ rebuild.pc = "replay"
  /\ rebuild.replayed < Len(rebuild.previousHistory)
  /\ formatter' =
       RestoreHistory(formatter,
                      <<rebuild.previousHistory[rebuild.replayed + 1]>>)
  /\ rebuild' = [rebuild EXCEPT !.replayed = @ + 1]
  /\ returned' = Held(returned,
                      EvictedCount(formatter.finalTranscriptHistory,
                                   formatter'.finalTranscriptHistory, 1))
  /\ RebuildStepKeeps
  /\ UNCHANGED <<currentProfile, currentDisplayWidthPx, currentMaxLines,
                 currentWordBreaking, currentWidthSetting>>

\* The loop is over: this.refreshDisplay(), and the call returns.
RefreshAndReturn ==
  /\ rebuild.pc = "replay"
  /\ rebuild.replayed = Len(rebuild.previousHistory)
  /\ RefreshDisplay(formatter)
  /\ rebuild' = [rebuild EXCEPT !.pc = "idle"]
  /\ call' = PlainCall(rebuild.op)
  /\ UNCHANGED <<returned, lastSpeakerId, inactivityTimer, currentProfile,
                 currentDisplayWidthPx, currentMaxLines, currentWordBreaking,
                 currentWidthSetting, settingsVars, transcriptVars,
                 processed, clockVars,
                 appVars>>

NextRebuild ==
  \/ RebuildEvent
  \/ UpdateSettingsEnter
  \/ UpdateProfileEnter
  \/ CreateFormatter
  \/ ReplayEntry
  \/ RefreshAndReturn

SpecRebuild == InitG1 /\ [][NextRebuild]_vars

(***************************************************************************)
(* The applied display settings: updateSettings with line counts under,    *)
(* at, within and over the limits and every width and break mode, device   *)
(* changes, and finals in between.                                         *)
(***************************************************************************)
\* Arguments of updateSettings.
ConfigInputs ==
  [displayWidth : WidthSettings, numberOfLines : {0, 2, 3, 5, 9},
   wordBreaking : BOOLEAN]

\* updateSettings(displayWidth, numberOfLines, wordBreaking) with its
\* arguments.
UpdateCall(s) ==
  [op |-> "updateSettings", text |-> <<>>, isFinal |-> FALSE,
   threw |-> FALSE, settings |-> s]

ConfigUpdateSettings ==
  \E s \in ConfigInputs :
    /\ UpdateSettingsWith(s)
    /\ call' = UpdateCall(s)
    /\ UNCHANGED pipelineVars

\* A final arriving meanwhile.
ConfigEvent == ProcessAndDisplayWith(<<"a">>, TRUE, Undefined)

NextConfig == ConfigUpdateSettings \/ DeviceModelChanged \/ ConfigEvent

SpecConfig == Init /\ [][NextConfig]_vars

(***************************************************************************)
(* The inactivity timer on the runtime's timer queue.  Time is counted in  *)
(* ticks; a timer set with setTimeout fires once it has no ticks left, not *)
(* before; clearTimeout takes it off the queue.                            *)
(***************************************************************************)
\* The ticks that stand for the timeout of 40000 ms.
TimeoutTicks == 2

\* The timer setTimeout(callback, 40000) returns, which the field
\* this.inactivityTimer then refers to.
NewTimer == [remaining |-> TimeoutTicks, current |-> TRUE]

\* Fault model: the new timer is armed without clearing the one before it.
resetInactivityTimerKeepsOld(queue) ==
  {[t EXCEPT !.current = FALSE] : t \in queue} \cup {NewTimer}

\* resetInactivityTimer(): clearTimeout(this.inactivityTimer) when the field
\* is set, then this.inactivityTimer = setTimeout(...).
resetInactivityTimer(queue) ==
  {t \in queue : ~t.current} \cup {NewTimer}

\* processAndDisplay: an event with a text ends with resetInactivityTimer();
\* one with a null text throws before it.
ClockEvent ==
  \E text \in {<<"a">>, NullText}, isFinal \in BOOLEAN,
     speakerId \in {Undefined, "1"} :
    /\ ProcessAndDisplayOver(text, isFinal, speakerId, {FALSE}, {{}})
    /\ IF text = NullText
       THEN UNCHANGED clockVars
       ELSE /\ timerQueue' = resetInactivityTimer(timerQueue)
            /\ sinceEvent' = 0
    /\ UNCHANGED <<settingsVars, transcriptVars, rebuildVars, appVars>>

\* One tick of time passes; no code of the session runs.
Tick ==
  /\ timerQueue' = {[t EXCEPT !.remaining = Max(@ - 1, 0)] : t \in timerQueue}
  /\ sinceEvent' = Min(sinceEvent + 1, TimeoutTicks)
  /\ call' = PlainCall("tick")
  /\ UNCHANGED <<formatter, result, emitted, returned, sessionVars,
                 settingsVars, transcriptVars, rebuildVars, appVars>>

\* The runtime runs the callback of a timer that has no ticks left: the
\* formatter is cleared, the speaker tracking reset, the display blanked.
TimerFires ==
  \E t \in timerQueue :
    /\ t.remaining = 0
    /\ timerQueue' = timerQueue \ {t}
    /\ formatter' = clear(formatter)
    /\ lastSpeakerId' = Undefined
    /\ glasses' = [text |-> <<>>, durationMs |-> <<1000>>]
    /\ inactivityTimer' = "fired"
    /\ result' = NoResult
    /\ call' = PlainCall("inactivityExpired")
    /\ emitted' = Emitted(1, 0)
    /\ returned' = Detached(returned)
    /\ UNCHANGED <<preview, currentProfile, currentDisplayWidthPx,
                   currentMaxLines, currentWordBreaking, currentWidthSetting,
                   settingsVars, transcriptVars, rebuildVars, sinceEvent,
                   appVars>>

NextClock == ClockEvent \/ Tick \/ TimerFires

SpecClock == InitG1 /\ [][NextClock]_vars

(***************************************************************************)
(* Events whose texts begin with punctuation, from a numbered speaker, a   *)
(* named speaker and no speaker: what showOnGlasses hands the sinks.       *)
(***************************************************************************)
\* ".a", ". ,a" and "b".
PunctuatedTexts == {<<".", "a">>, <<".", " ", ",", "a">>, <<"b">>}

PunctuatedEvent ==
  \E text \in PunctuatedTexts, isFinal \in BOOLEAN,
     speakerId \in {Undefined, "1", "a"} :
    ProcessAndDisplayWith(text, isFinal, speakerId)

SpecClean == InitG1 /\ [][PunctuatedEvent]_vars

(***************************************************************************)
(* The transcript list under events that all carry an utteranceId, and     *)
(* under events that carry none.                                           *)
(***************************************************************************)
UtteranceIds == {"u1", "u2", "u3"}

\* An event of the subscription: text "a" or "b", no speaker.
ListEvents(ids) ==
  [text : {<<"a">>, <<"b">>}, isFinal : BOOLEAN, utteranceId : ids,
   speakerId : {Undefined}]

HandleUtterance ==
  \E data \in ListEvents(UtteranceIds) : HandleTranscriptionOf(data, {})

NextUtterances == HandleUtterance \/ ResumeTranscription

SpecUtterances == InitG1 /\ [][NextUtterances]_vars

HandleLegacy ==
  \E data \in ListEvents({Undefined}) : HandleTranscriptionOf(data, {})

NextLegacy == HandleLegacy \/ ResumeTranscription

SpecLegacy == InitG1 /\ [][NextLegacy]_vars

(***************************************************************************)
(* The break mode: setCharacterBreaking on the DisplayManager, and the     *)
(* setters of the SettingsManager that apply the stored settings.          *)
(***************************************************************************)
\* setCharacterBreaking(enabled): updateSettings with the current width
\* setting and line count when the mode differs, nothing otherwise.
SetCharacterBreaking ==
  \E enabled \in BOOLEAN :
    /\ IF currentWordBreaking # enabled
       THEN UpdateSettingsWith([displayWidth |-> currentWidthSetting,
                                numberOfLines |-> currentMaxLines,
                                wordBreaking |-> enabled])
       ELSE UNCHANGED <<formatter, result, sessionVars, emitted, returned>>
    /\ call' = SettingCall("setCharacterBreaking", enabled, FALSE)
    /\ UNCHANGED pipelineVars

\* setLanguage(language), up to its first await that yields to other work.
\* The language key is not among the stored keys of the model: no setting
\* of the display is read from it.
SetLanguage ==
  /\ settingsTask = "idle"
  /\ settingsTask' = "apply"
  /\ call' = PlainCall("setLanguage")
  /\ result' = NoResult
  /\ emitted' = NoEmission
  /\ UNCHANGED <<formatter, sessionVars, returned, storage,
                 settingsBroadcast, transcriptVars, rebuildVars, clockVars,
                 appVars>>

NextBreakMode ==
  \/ SetCharacterBreaking
  \/ SetDisplayLines
  \/ SetDisplayWidth
  \/ SetLanguage
  \/ ApplyToProcessor
  \/ BroadcastSettingsUpdate

SpecBreakMode == Init /\ [][NextBreakMode]_vars

(***************************************************************************)
(* Settings changes through the SettingsManager while the device model     *)
(* changes.                                                                *)
(***************************************************************************)
NextLines ==
  \/ SetDisplayLines
  \/ SetDisplayWidth
  \/ ApplyToProcessor
  \/ BroadcastSettingsUpdate
  \/ DeviceModelChanged

SpecLines == Init /\ [][NextLines]_vars

(***************************************************************************)
(* SettingsManager setters running concurrently: each REST request calls   *)
(* its setter without waiting for the others, and a setter yields at every *)
(* await (storage.set, then the storage.get calls of applyToProcessor).    *)
(***************************************************************************)
\* The most setter calls in flight at once.
MaxSetters == 2

\* Values the concurrent requests pass: 2 and 4 lines, Narrow and Wide.
ConcurrentLines == {Whole(2), Whole(4)}
ConcurrentWidths == {Whole(0), Whole(2)}

\* A setter call that passed its validation and wrote its value: it awaits
\* storage.set, with nothing read yet.
StartedSetter(op) == [op |-> op, pc |-> "readLines", lines |-> 0, width |-> 0]

\* What the steps of a setter leave alone.
SetterStepKeeps ==
  /\ result' = NoResult
  /\ emitted' = NoEmission
  /\ UNCHANGED <<formatter, sessionVars, returned, settingsTask,
                 transcriptVars, rebuildVars, clockVars, disposed, app, hook>>

\* setDisplayLines(lines), setDisplayWidth(width) or setLanguage(language)
\* up to `await this.storage.set(...)`.
StartSetter ==
  /\ Len(setters) < MaxSetters
  /\ \/ \E lines \in ConcurrentLines :
          /\ storage' = [storage EXCEPT !.displayLines = <<lines>>]
          /\ setters' = Append(setters, StartedSetter("setDisplayLines"))
          /\ call' = SettingCall("setDisplayLines", lines, FALSE)
     \/ \E width \in ConcurrentWidths :
          /\ storage' = [storage EXCEPT !.displayWidth = <<width>>]
          /\ setters' = Append(setters, StartedSetter("setDisplayWidth"))
          /\ call' = SettingCall("setDisplayWidth", width, FALSE)
     \/ /\ UNCHANGED storage
        /\ setters' = Append(setters, StartedSetter("setLanguage"))
        /\ call' = PlainCall("setLanguage")
  /\ UNCHANGED settingsBroadcast
  /\ SetterStepKeeps

\* applyToProcessor of the i-th setter: `await this.getDisplayLines()`.
ReadDisplayLines ==
  \E i \in DOMAIN setters :
    /\ setters[i].pc = "readLines"
    /\ setters' = [setters EXCEPT ![i].pc = "readWidth",
                                  ![i].lines = getDisplayLines(storage)]
    /\ call' = PlainCall("getDisplayLines")
    /\ UNCHANGED <<storage, settingsBroadcast>>
    /\ SetterStepKeeps

\* applyToProcessor of the i-th setter: `await this.getDisplayWidth()`, then
\* updateSettings(displayWidth, displayLines) with what was read.
ReadWidthAndUpdate ==
  \E i \in DOMAIN setters :
    /\ setters[i].pc = "readWidth"
    /\ setters' = [setters EXCEPT ![i].pc = "broadcast",
                                  ![i].width = getDisplayWidth(storage)]
    /\ UpdateSettingsWith([displayWidth |-> getDisplayWidth(storage),
                           numberOfLines |-> setters[i].lines,
                           wordBreaking |-> TRUE])
    /\ call' = PlainCall("applyToProcessor")
    /\ UNCHANGED <<storage, settingsTask, settingsBroadcast, transcriptVars,
                   rebuildVars, clockVars, disposed, app, hook>>

\* broadcastSettingsUpdate() of the i-th setter: getAll() resolved, the
\* message is sent, and the setter has completed.
SetterBroadcasts ==
  \E i \in DOMAIN setters :
    /\ setters[i].pc = "broadcast"
    /\ settingsBroadcast' = <<[displayLines |-> getDisplayLines(storage),
                               displayWidth |-> getDisplayWidth(storage)]>>
    /\ setters' = RemoveAt(setters, i)
    /\ call' = PlainCall("broadcastSettingsUpdate")
    /\ UNCHANGED storage
    /\ SetterStepKeeps

NextSetters ==
  \/ StartSetter
  \/ ReadDisplayLines
  \/ ReadWidthAndUpdate
  \/ SetterBroadcasts

SpecSetters == InitG1 /\ [][NextSetters]_vars

(***************************************************************************)
(* The end of a session: UserSession.dispose() while transcription events  *)
(* are being handled and the inactivity timer runs.                        *)
(***************************************************************************)
\* Events the subscription delivers until it is cleaned up.
DisposeEvents ==
  [text : {<<"a">>}, isFinal : BOOLEAN, utteranceId : {Undefined},
   speakerId : {Undefined}]

\* The subscription callback: handleTranscription(data) up to its await.
\* dispose() calls transcriptionCleanup(), after which no event comes.
DeliverTranscription ==
  /\ ~disposed
  /\ \E data \in DisposeEvents : HandleTranscriptionOf(data, {})

\* The continuation of a suspended handleTranscription: processAndDisplay,
\* which ends with resetInactivityTimer().  Nothing in it looks at whether
\* the session was disposed; showTextWall of a stopped session may throw.
ResumeAndArmTimer ==
  \E i \in DOMAIN awaiting :
    /\ ProcessAndDisplayOver(awaiting[i].text, awaiting[i].isFinal,
                             awaiting[i].speakerId,
                             IF disposed THEN BOOLEAN ELSE {FALSE}, {{}})
    /\ awaiting' = RemoveAt(awaiting, i)
    /\ timerQueue' = resetInactivityTimer(timerQueue)
    /\ sinceEvent' = 0
    /\ UNCHANGED <<settingsVars, sseClients, transcripts, rebuildVars,
                   appVars>>

\* UserSession.dispose(): the subscription is cleaned up, the
\* TranscriptsManager clears its SSE clients, the DisplayManager clears
\* its inactivity timer (the handle stays in the field).
Dispose ==
  /\ ~disposed
  /\ disposed' = TRUE
  /\ sseClients' = {}
  /\ timerQueue' = {t \in timerQueue : ~t.current}
  /\ call' = PlainCall("dispose")
  /\ result' = NoResult
  /\ emitted' = NoEmission
  /\ UNCHANGED <<formatter, sessionVars, returned, settingsVars, transcripts,
                 awaiting, rebuildVars, sinceEvent, setters, app, hook>>

NextDispose ==
  \/ DeliverTranscription
  \/ ResumeAndArmTimer
  \/ Tick
  \/ TimerFires
  \/ Dispose

SpecDispose == InitG1 /\ [][NextDispose]_vars

(***************************************************************************)
(* LiveCaptionsApp and the UserSession registry, for one user: the SDK     *)
(* calls onSession and onStop, the webview opens and closes event streams. *)
(* app.sessions[i] is the UserSession made by the i-th onSession,          *)
(* app.registry what UserSession.userSessions holds for the user (<<>> or  *)
(* <<i>>), app.streams[s] the session the handler of stream s captured (0: *)
(* the stream is not open).                                                *)
(***************************************************************************)
\* The most sessions the SDK starts for the user.
MaxSessions == 2

\* new UserSession(session): initialize() is called next and awaits the
\* settings; nothing is subscribed yet.
NewUserSession ==
  [init |-> "awaiting", subscriptions |-> 0, cleanup |-> FALSE,
   disposed |-> FALSE, stopped |-> FALSE, clients |-> {}]

\* What the steps of the app leave alone.
AppStepKeeps ==
  /\ result' = NoResult
  /\ emitted' = NoEmission
  /\ UNCHANGED <<formatter, sessionVars, returned, settingsVars,
                 transcriptVars, rebuildVars, clockVars, setters, disposed,
                 hook>>

\* onSession(session, sessionId, userId): the constructor registers the
\* new UserSession under the userId, then initialize() starts and awaits.
OnSession ==
  /\ Len(app.sessions) < MaxSessions
  /\ app' = [app EXCEPT !.sessions = Append(@, NewUserSession),
                        !.registry = <<Len(app.sessions) + 1>>]
  /\ call' = SettingCall("onSession", Len(app.sessions) + 1, FALSE)
  /\ AppStepKeeps

\* initialize() of session i gets past its awaits and assigns
\* transcriptionCleanup the subscription it registers: in the try block,
\* or in the catch block when an await threw (the two paths exclude each
\* other: nothing after the subscription in the try block throws).
InitializeSubscribes ==
  \E i \in DOMAIN app.sessions :
    /\ app.sessions[i].init = "awaiting"
    /\ app' = [app EXCEPT !.sessions[i].init = "done",
                          !.sessions[i].subscriptions = @ + 1,
                          !.sessions[i].cleanup = TRUE]
    /\ call' = SettingCall("initialize", i, FALSE)
    /\ AppStepKeeps

\* UserSession.dispose() of session j: the subscription is cleaned up when
\* transcriptionCleanup is set, the client set is cleared, the registry
\* entry of the user is deleted.
DisposedSession(session) ==
  [session EXCEPT
     !.subscriptions = IF session.cleanup THEN @ - 1 ELSE @,
     !.cleanup = FALSE,
     !.clients = {},
     !.disposed = TRUE]

\* onStop(sessionId, userId, reason) for session i:
\* UserSession.getUserSession(userId)?.dispose()
OnStop ==
  \E i \in DOMAIN app.sessions :
    /\ ~app.sessions[i].stopped
    /\ app' =
         LET stopped == [app EXCEPT !.sessions[i].stopped = TRUE]
         IN IF app.registry = <<>> THEN stopped
            ELSE LET j == app.registry[1]
                 IN [stopped EXCEPT
                       !.sessions[j] = DisposedSession(@),
                       !.registry = <<>>]
    /\ call' = SettingCall("onStop", i, FALSE)
    /\ AppStepKeeps

\* GET /api/transcripts/stream: 404 without a registered session, else the
\* handler captures the registered session and adds its client to it.
OpenStream ==
  \E s \in Streams :
    /\ app.streams[s] = 0
    /\ IF app.registry = <<>>
       THEN /\ UNCHANGED app
            /\ call' = SettingCall("stream", s, TRUE)
       ELSE /\ app' = [app EXCEPT
                         !.streams[s] = app.registry[1],
                         !.sessions[app.registry[1]].clients = @ \cup {s}]
            /\ call' = SettingCall("stream", s, FALSE)
    /\ AppStepKeeps

\* stream.onAbort: the client is removed from the captured session.
CloseStream ==
  \E s \in Streams :
    /\ app.streams[s] # 0
    /\ app' = [app EXCEPT !.streams[s] = 0,
                          !.sessions[app.streams[s]].clients = @ \ {s}]
    /\ call' = SettingCall("abort", s, FALSE)
    /\ AppStepKeeps

NextApp ==
  \/ OnSession
  \/ InitializeSubscribes
  \/ OnStop
  \/ OpenStream
  \/ CloseStream

SpecApp == InitG1 /\ [][NextApp]_vars

(***************************************************************************)
(* The useTranscripts hook of the webview: connect, the EventSource        *)
(* handlers, the reconnect timers and the heartbeat check.  hook.timers    *)
(* are the pending setTimeout timers of scheduleReconnect, each with the   *)
(* attempt it was scheduled for, its delay, and whether                    *)
(* reconnectTimeoutRef refers to it.  The component stays mounted.         *)
(***************************************************************************)
INITIAL_RETRY_DELAY_MS == 1000
MAX_RETRY_DELAY_MS == 30000
MAX_RECONNECT_ATTEMPTS == 20

\* The most reconnect timers the model lets be pending at once.
MaxPendingTimers == 2

\* getRetryDelay(attempt)
getRetryDelay(attempt) ==
  Min(INITIAL_RETRY_DELAY_MS * 2^attempt, MAX_RETRY_DELAY_MS)

\* cleanup(): the EventSource is closed, the timer reconnectTimeoutRef
\* refers to is cleared, the heartbeat check is cleared.
cleanup(h) ==
  [h EXCEPT !.es = "none",
            !.timers = SelectSeq(@, LAMBDA t : ~t.current),
            !.heartbeat = FALSE]

\* scheduleReconnect(attempt): at the limit the permanent error is set;
\* below it a timer is set and stored in reconnectTimeoutRef, whatever the
\* ref held before.
scheduleReconnect(h, attempt) ==
  IF attempt >= MAX_RECONNECT_ATTEMPTS
  THEN [h EXCEPT !.error = "permanent", !.connected = FALSE]
  ELSE [h EXCEPT
          !.error = "reconnecting",
          !.reconnectAttempt = attempt,
          !.timers = Append([i \in DOMAIN @ |-> [@[i] EXCEPT !.current = FALSE]],
                            [attempt |-> attempt,
                             delay |-> getRetryDelay(attempt),
                             current |-> TRUE])]

\* connect(attempt) up to `await fetch("/api/transcripts")`; it returns at
\* once while another connect is running.
connect(h, attempt) ==
  IF h.isConnecting THEN h
  ELSE [cleanup(h) EXCEPT !.isConnecting = TRUE, !.pc = "fetching",
                          !.attempt = attempt]

\* What the steps of the hook leave alone.
HookStepKeeps ==
  /\ result' = NoResult
  /\ emitted' = NoEmission
  /\ UNCHANGED <<formatter, sessionVars, returned, settingsVars,
                 transcriptVars, rebuildVars, clockVars, setters, disposed,
                 app>>

\* A step may schedule a reconnect only while the model has room for the
\* timer.
RoomForTimer == Len(hook.timers) < MaxPendingTimers

\* The effect runs: connect(0).
Mount ==
  /\ hook.pc = "unmounted"
  /\ hook' = connect([hook EXCEPT !.pc = "idle"], 0)
  /\ call' = PlainCall("mount")
  /\ HookStepKeeps

\* fetch settles with 401 or 404, or throws: scheduleReconnect(attempt).
FetchFails ==
  /\ hook.pc = "fetching"
  /\ RoomForTimer
  /\ \E status \in {"401", "404", "throws"} :
       hook' = scheduleReconnect(
                 [hook EXCEPT !.pc = "idle", !.isConnecting = FALSE,
                              !.connected =
                                IF status = "throws" THEN FALSE ELSE @,
                              !.error = "waiting"],
                 hook.attempt)
  /\ call' = PlainCall("fetchFails")
  /\ HookStepKeeps

\* fetch settles with another status: the EventSource is created and the
\* heartbeat check started; isConnecting stays set until onopen or onerror.
FetchSucceeds ==
  /\ hook.pc = "fetching"
  /\ hook' = [hook EXCEPT !.pc = "idle", !.es = "connecting",
                          !.esAttempt = hook.attempt, !.heartbeat = TRUE]
  /\ call' = PlainCall("fetchSucceeds")
  /\ HookStepKeeps

\* eventSource.onopen
EventSourceOpens ==
  /\ hook.es = "connecting"
  /\ hook' = [hook EXCEPT !.es = "open", !.connected = TRUE,
                          !.error = "null", !.reconnectAttempt = 0,
                          !.isConnecting = FALSE]
  /\ call' = PlainCall("onopen")
  /\ HookStepKeeps

\* eventSource.onerror: the connection is closed and a reconnect scheduled
\* with the attempt of the connect() call that made the EventSource.
EventSourceErrors ==
  /\ hook.es # "none"
  /\ RoomForTimer
  /\ hook' = scheduleReconnect(
               [hook EXCEPT !.connected = FALSE, !.isConnecting = FALSE,
                            !.es = "none"],
               hook.esAttempt)
  /\ call' = PlainCall("onerror")
  /\ HookStepKeeps

\* The heartbeat check finds no activity for HEARTBEAT_TIMEOUT_MS: the
\* connection is closed and scheduleReconnect(0) called.  The check runs
\* until a cleanup() clears it.
HeartbeatTimeout ==
  /\ hook.heartbeat
  /\ RoomForTimer
  /\ hook' = scheduleReconnect(
               [hook EXCEPT !.es = "none", !.connected = FALSE], 0)
  /\ call' = PlainCall("heartbeatTimeout")
  /\ HookStepKeeps

\* A reconnect timer fires: connect(attempt + 1).
ReconnectTimerFires ==
  \E i \in DOMAIN hook.timers :
    /\ hook' = connect([hook EXCEPT !.timers = RemoveAt(@, i)],
                       hook.timers[i].attempt + 1)
    /\ call' = SettingCall("reconnectTimer", hook.timers[i].attempt, FALSE)
    /\ HookStepKeeps

NextHook ==
  \/ Mount
  \/ FetchFails
  \/ FetchSucceeds
  \/ EventSourceOpens
  \/ EventSourceErrors
  \/ HeartbeatTimeout
  \/ ReconnectTimerFires

SpecHook == InitG1 /\ [][NextHook]_vars

\* Consecutive failures: no EventSource ever opens.
NextHookFailing ==
  \/ Mount
  \/ FetchFails
  \/ FetchSucceeds
  \/ EventSourceErrors
  \/ HeartbeatTimeout
  \/ ReconnectTimerFires

SpecHookFailing == InitG1 /\ [][NextHookFailing]_vars

(***************************************************************************)
(* Properties of the formatter.  They are stated at every reachable        *)
(* formatter and, where the arguments of a method are named, for every     *)
(* argument a caller can pass.                                             *)
(***************************************************************************)
\* The last n elements of s (all of s when it has fewer).
LastN(s, n) == SubSeq(s, Len(s) - Min(n, Len(s)) + 1, Len(s))

Last(s) == s[Len(s)]

History == getFinalTranscriptHistory(formatter)

LastWasFinal == call.op = "processTranscription" /\ call.isFinal
LastWasInterim == call.op = "processTranscription" /\ ~call.isFinal

\* C1: the history never holds more than maxFinalTranscripts entries; a
\* final with text appends its entry at the end; an overflow, by an append
\* or by lowering the capacity, removes entries from the front only; a final
\* without text and clear() are the only other effects.
C1_HistoryBoundedFifo ==
  /\ Len(History) <= formatter.maxFinalTranscripts
  /\ \A text \in TextInputs, speakerId \in OptSpeakerIds,
        speakerChanged \in OptBooleans :
       LET after == getFinalTranscriptHistory(
                      processTranscription(formatter, text, TRUE, speakerId,
                                           speakerChanged))
       IN IF CleanText(text) = <<>>
          THEN after = History
          ELSE /\ after # <<>>
               /\ Last(after).text = CleanText(text)
               /\ after = LastN(Append(History, Last(after)),
                                formatter.maxFinalTranscripts)
  /\ \A max \in 1..MaxCapacity :
       getFinalTranscriptHistory(setMaxFinalTranscripts(formatter, max))
         = LastN(History, max)
  /\ getFinalTranscriptHistory(clear(formatter)) = <<>>

\* A full history whose last entry the last call, a final, appended, and
\* whose entries differ, so that the order of eviction shows.
C1_Witness ==
  /\ LastWasFinal
  /\ Len(History) = formatter.maxFinalTranscripts
  /\ Len(History) >= 2
  /\ Last(History).text = CleanText(call.text)
  /\ History[1].text # Last(History).text

\* C2: after a final, getCombinedTranscriptHistory() is the trimmed texts of
\* the stored finals followed by the trimmed text of this one (when it has
\* any), the last maxFinalTranscripts of them, joined by single spaces;
\* speaker ids and turn flags do not show.
C2_CombinedIsSpaceJoined ==
  /\ History = <<>> => getCombinedTranscriptHistory(formatter) = <<>>
  /\ \A text \in TextInputs, speakerId \in OptSpeakerIds,
        speakerChanged \in OptBooleans :
       LET texts == IF CleanText(text) = <<>> THEN EntryTexts(History)
                    ELSE Append(EntryTexts(History), CleanText(text))
       IN getCombinedTranscriptHistory(
            processTranscription(formatter, text, TRUE, speakerId,
                                 speakerChanged))
          = Join(LastN(texts, formatter.maxFinalTranscripts), <<" ">>)

\* Two finals of different speakers are stored and combined as "a bcdef".
C2_Witness ==
  /\ LastWasFinal
  /\ Len(History) = 2
  /\ History[1].speakerId # History[2].speakerId
  /\ History[2].hadSpeakerChange
  /\ getCombinedTranscriptHistory(formatter)
       = <<"a", " ", "b", "c", "d", "e", "f">>

\* The text the last processTranscription call rendered: the history and,
\* for an interim, its trimmed text under the tracked speaker.
FullDisplayText ==
  IF call.isFinal
  THEN buildDisplayText(formatter, <<>>, Undefined, FALSE)
  ELSE buildDisplayText(formatter, CleanText(call.text),
                        formatter.partialSpeakerId,
                        formatter.partialHadSpeakerChange)

UnboundedLines ==
  wrap(FullDisplayText, formatter.displayWidthPx, formatter.breakMode).lines

\* C3: the lines a processTranscription call returns are the last
\* min(n, maxLines) of the n lines the unbounded wrap of the full display
\* text produces, so the last returned line is the last wrapped line; the
\* same holds for that text under every break mode and window height.
C3_LinesAreTailOfWrap ==
  call.op = "processTranscription" =>
    /\ result.lines
         = LastN(UnboundedLines, Min(Len(UnboundedLines), formatter.maxLines))
    /\ Last(result.lines) = Last(UnboundedLines)
    /\ \A breakMode \in BreakModes, maxLines \in 1..3 :
         LET all == wrap(FullDisplayText, formatter.displayWidthPx,
                         breakMode).lines
             shown == wrapAndFormat([formatter EXCEPT !.breakMode = breakMode,
                                                      !.maxLines = maxLines],
                                    FullDisplayText).lines
         IN shown = LastN(all, Min(Len(all), maxLines))

\* An interim whose text is in the last line while lines were dropped from
\* the front.
C3_Witness ==
  /\ LastWasInterim
  /\ CleanText(call.text) # <<>>
  /\ Len(UnboundedLines) > formatter.maxLines
  /\ result.lines[1] # UnboundedLines[1]
  /\ Last(result.lines) = CleanText(call.text)

\* C4: a FormatResult has at most maxLines lines; truncated is true exactly
\* when the unbounded wrap produced more than maxLines lines, and then the
\* result has exactly maxLines lines.
C4_TruncatedIffOverflow ==
  call.op = "processTranscription" =>
    /\ Len(result.lines) <= formatter.maxLines
    /\ result.truncated <=> Len(UnboundedLines) > formatter.maxLines
    /\ result.truncated => Len(result.lines) = formatter.maxLines
    /\ Len(result.lineMetrics) = Len(result.lines)

\* After more final text than fits: a truncated result of maxLines lines.
C4_Witness ==
  /\ LastWasFinal
  /\ result.truncated
  /\ Len(result.lines) = formatter.maxLines
  /\ Len(UnboundedLines) = formatter.maxLines + 2

\* A window exactly full is not truncated.
C4_WitnessFull ==
  /\ call.op = "processTranscription"
  /\ ~result.truncated
  /\ Len(UnboundedLines) = formatter.maxLines

\* Texts that are null, empty or whitespace only.
BlankTexts == {text \in TextInputs : CleanText(text) = <<>>}

\* C8: when the interims of the in-flight utterance tracked a speaker id
\* and a turn boundary, a final with text stores as last entry one with
\* hadSpeakerChange = true whatever turn flag it is passed, carrying the
\* speaker id passed with the final or, when none is passed, the tracked one.
C8_FinalFallsBackToTracked ==
  (formatter.partialSpeakerId # Undefined /\ formatter.partialHadSpeakerChange)
  => \A text \in TextInputs \ BlankTexts, speakerId \in OptSpeakerIds,
        speakerChanged \in OptBooleans :
       LET after == getFinalTranscriptHistory(
                      processTranscription(formatter, text, TRUE, speakerId,
                                           speakerChanged))
       IN /\ after # <<>>
          /\ Last(after).text = CleanText(text)
          /\ Last(after).hadSpeakerChange = TRUE
          /\ Last(after).speakerId
               = IF speakerId # Undefined THEN speakerId
                 ELSE formatter.partialSpeakerId

\* Interims tracked speaker "1"; a final passed neither id nor turn flag
\* stores an entry of speaker "1" that opens a turn, and a final passed
\* speaker "2" stores one of speaker "2".
C8_Witness ==
  /\ LastWasInterim
  /\ formatter.partialSpeakerId = "1"
  /\ formatter.partialHadSpeakerChange
  /\ History # <<>>
  /\ LET kept == processTranscription(formatter, <<"b", "c", "d", "e", "f">>,
                                      TRUE, Undefined, "false")
         given == processTranscription(formatter, <<"b", "c", "d", "e", "f">>,
                                       TRUE, "2", "undefined")
     IN /\ Last(kept.finalTranscriptHistory).speakerId = "1"
        /\ Last(kept.finalTranscriptHistory).hadSpeakerChange
        /\ Last(given.finalTranscriptHistory).speakerId = "2"

\* C9: a final whose text is null, empty or whitespace only returns a
\* FormatResult (the call did not throw), leaves the history as it was and
\* returns the wrapped display text of that history.
C9_BlankFinalKeepsHistory ==
  /\ call.op = "processTranscription" => ~call.threw
  /\ \A text \in BlankTexts, speakerId \in OptSpeakerIds,
        speakerChanged \in OptBooleans :
       /\ getFinalTranscriptHistory(
            processTranscription(formatter, text, TRUE, speakerId,
                                 speakerChanged)) = History
       /\ LET shown == processTranscriptionResult(formatter, text, TRUE,
                                                  speakerId, speakerChanged)
              all == wrap(RenderHistory(History, <<>>),
                          formatter.displayWidthPx, formatter.breakMode).lines
          IN /\ shown.lines = LastN(all, formatter.maxLines)
             /\ shown.displayText = Join(shown.lines, <<"\n">>)

\* A null final arrived while the history held entries: they are shown.
C9_Witness ==
  /\ LastWasFinal
  /\ call.text = NullText
  /\ ~call.threw
  /\ History # <<>>
  /\ Last(result.lines) = Last(History).text

\* C10: a step that changes the final-transcript history is a final
\* processTranscription call, clear or setMaxFinalTranscripts; an interim
\* call never is one, whatever its text, speaker id or turn flag.
C10_InterimKeepsHistory ==
  [][getFinalTranscriptHistory(formatter') # History
       => \/ call'.op \in {"clear", "setMaxFinalTranscripts"}
          \/ call'.op = "processTranscription" /\ call'.isFinal]_vars

\* An interim with text and a new speaker arrived over a stored history.
C10_Witness ==
  /\ LastWasInterim
  /\ CleanText(call.text) # <<>>
  /\ formatter.partialSpeakerId # Undefined
  /\ History # <<>>
  /\ formatter.partialSpeakerId # Last(History).speakerId

(***************************************************************************)
(* Properties of the session.                                              *)
(***************************************************************************)
\* C5: at every reachable session, updateSettings with any width setting,
\* line count (under, at, within and over the clamp) and break mode, and updateProfile to the profile of any
\* device model, leave getFinalTranscriptHistory() as it was: the same
\* entries in the same order, each with its text, speakerId and
\* hadSpeakerChange.
C5_ReconfigurationKeepsHistory ==
  /\ \A displayWidth \in WidthSettings, numberOfLines \in {0, 2, 4, 9},
        wordBreaking \in BOOLEAN :
       getFinalTranscriptHistory(
         RefreshedFormatter(
           RebuildFormatter(formatter, currentProfile, wordBreaking,
             calculateDisplayWidth(displayWidth, currentProfile),
             ClampLines(numberOfLines, currentProfile)))) = History
  /\ \A modelName \in DeviceModels :
       LET newProfile == getProfileForModel(modelName)
       IN getFinalTranscriptHistory(
            RefreshedFormatter(
              RebuildFormatter(formatter, newProfile, currentWordBreaking,
                calculateDisplayWidth(currentWidthSetting, newProfile),
                Min(currentMaxLines, Profile(newProfile).maxLines)))) = History

\* A profile switch, after a settings change, over a history of two entries
\* of different speakers, the first of which opened a turn.
C5_Witness ==
  /\ call.op = "updateProfile"
  /\ ~currentWordBreaking
  /\ Len(History) = 2
  /\ History[1].hadSpeakerChange
  /\ History[1].speakerId # History[2].speakerId

\* The number of speaker labels in a text (the texts hold no brackets).
LabelCount(text) == Cardinality(PositionsIn(text, {"["}))

\* A session that has nothing stored and has seen no speaker.
FreshSession == History = <<>> /\ lastSpeakerId = Undefined

\* The turn flag processAndDisplay passes to the formatter.
TurnFlag(last, speakerId) ==
  IF SpeakerChanged(last, speakerId) THEN "true" ELSE "false"

\* The full display text after two consecutive final events.
TextAfterTwoFinals(text1, speakerId1, text2, speakerId2) ==
  LET f1 == processTranscription(formatter, text1, TRUE, speakerId1,
                                 TurnFlag(lastSpeakerId, speakerId1))
      last1 == IF SpeakerChanged(lastSpeakerId, speakerId1) THEN speakerId1
               ELSE lastSpeakerId
      f2 == processTranscription(f1, text2, TRUE, speakerId2,
                                 TurnFlag(last1, speakerId2))
  IN buildDisplayText(f2, <<>>, Undefined, FALSE)

SpokenTexts == {text \in TextInputs \cup SessionTexts : CleanText(text) # <<>>}

C7_OnlyFirstUtteranceOpensTurn ==
  /\ \A i \in 2..Len(History) : ~History[i].hadSpeakerChange
  /\ LabelCount(FullDisplayText) <= 1

\* C11: every FormatResult has at least one line, whatever the text, the
\* kind of event and the speaker arguments; on an empty history a null or
\* empty text returns exactly one empty line.
C11_AtLeastOneLine ==
  /\ call.op = "processTranscription" => Len(result.lines) >= 1
  /\ \A text \in TextInputs, isFinal \in BOOLEAN,
        speakerId \in OptSpeakerIds, speakerChanged \in OptBooleans :
       LET shown == processTranscriptionResult(formatter, text, isFinal,
                                               speakerId, speakerChanged)
       IN /\ Len(shown.lines) >= 1
          /\ Len(shown.lineMetrics) = Len(shown.lines)
  /\ \A text \in {NullText, <<>>}, isFinal \in BOOLEAN :
       processTranscriptionResult(clear(formatter), text, isFinal,
                                  Undefined, "undefined").lines = << <<>> >>

\* A null text was processed on an empty history: one empty line came back.
C11_Witness ==
  /\ call.op = "processTranscription"
  /\ call.text = NullText
  /\ History = <<>>
  /\ result.lines = << <<>> >>
  /\ result.displayText = <<>>

\* C12: a step in which the caller changes the array it got from
\* getFinalTranscriptHistory(), or a field of one of its elements, leaves
\* the formatter's history, and the display built from it, as they were.
C12_ReturnedCopyIsDetached ==
  [][call'.op \in {"mutateReturnedArray", "mutateReturnedEntry"}
       => /\ getFinalTranscriptHistory(formatter') = History
          /\ buildDisplayText(formatter', <<>>, Undefined, FALSE)
               = buildDisplayText(formatter, <<>>, Undefined, FALSE)]_vars

\* The part that holds: changing the array itself (push, pop, reverse) never
\* reaches the formatter.
C12_ArrayMutationIsLocal ==
  [][call'.op = "mutateReturnedArray" => formatter' = formatter]_vars

\* What a setter's rejection must leave alone: the persisted settings, the
\* DisplayManager's applied settings and formatter, and the broadcasts.
SettingsUntouched ==
  UNCHANGED <<storage, settingsTask, settingsBroadcast, formatter,
              currentWidthSetting, currentDisplayWidthPx, currentMaxLines,
              currentWordBreaking>>

\* C13: setDisplayLines with a value outside [2, 5] and setDisplayWidth
\* with a value outside {0, 1, 2} throw, and the persisted settings, the
\* applied settings, the formatter and the broadcasts stay as they were.
C13_InvalidSettingRejected ==
  [][/\ (/\ call'.op = "setDisplayLines"
         /\ (call'.value < Whole(2) \/ call'.value > Whole(5)))
          => call'.threw /\ SettingsUntouched
     /\ (/\ call'.op = "setDisplayWidth"
         /\ call'.value \notin {Whole(0), Whole(1), Whole(2)})
          => call'.threw /\ SettingsUntouched]_vars

\* The part that holds: a line count outside [2, 5], and a width outside
\* the interval [0, 2], is rejected with nothing changed.
C13_OutOfRangeRejected ==
  [][(/\ call'.op \in {"setDisplayLines", "setDisplayWidth"}
      /\ \/ call'.value < (IF call'.op = "setDisplayLines"
                           THEN Whole(2) ELSE Whole(0))
         \/ call'.value > (IF call'.op = "setDisplayLines"
                           THEN Whole(5) ELSE Whole(2)))
       => call'.threw /\ SettingsUntouched]_vars

\* A newly constructed formatter with the configuration of f.
Configured(f) ==
  NewCaptionsFormatter(f.profile,
                       [maxFinalTranscripts |-> f.maxFinalTranscripts,
                        breakMode |-> f.breakMode,
                        displayWidthPx |-> f.displayWidthPx,
                        maxLines |-> f.maxLines])

\* C14: clear() leaves the formatter in the state of a newly constructed
\* formatter with the same configuration (empty history, no tracked partial
\* speaker), so that the next event gives the same result and the same
\* next state on both.
C14_ClearIsFresh ==
  /\ clear(formatter) = Configured(formatter)
  /\ call.op = "clear" => formatter = Configured(formatter)
  /\ \A isFinal \in BOOLEAN, speakerId \in FormatterSpeakerIds,
        speakerChanged \in {"undefined", "false"} :
       LET text == <<"b", "c", "d", "e", "f">>
       IN /\ processTranscriptionResult(clear(formatter), text, isFinal,
                                        speakerId, speakerChanged)
               = processTranscriptionResult(Configured(formatter), text,
                                            isFinal, speakerId, speakerChanged)
          /\ processTranscription(clear(formatter), text, isFinal, speakerId,
                                  speakerChanged)
               = processTranscription(Configured(formatter), text, isFinal,
                                      speakerId, speakerChanged)

\* clear() was called on a formatter whose capacity had been lowered: it is
\* the fresh formatter of that capacity.
C14_Witness ==
  /\ call.op = "clear"
  /\ formatter.maxFinalTranscripts < MaxCapacity
  /\ History = <<>>
  /\ formatter.partialSpeakerId = Undefined
  /\ ~formatter.partialHadSpeakerChange

\* The state the timeout callback leaves: history and partial state
\* cleared, no last speaker, an empty text sent to the device.
InactivityCleared ==
  /\ inactivityTimer = "fired"
  /\ call.op = "inactivityExpired"
  /\ History = <<>>
  /\ formatter.partialSpeakerId = Undefined
  /\ ~formatter.partialHadSpeakerChange
  /\ lastSpeakerId = Undefined
  /\ glasses = [text |-> <<>>, durationMs |-> <<1000>>]
  /\ emitted.glasses = 1

\* C15: once a transcription has armed the inactivity timer, the timer
\* eventually fires and leaves the cleared state; it fires only while armed,
\* so once per arming.
C15_InactivityClears ==
  /\ (inactivityTimer = "pending") ~> InactivityCleared
  /\ [][call'.op = "inactivityExpired"
          => inactivityTimer = "pending" /\ inactivityTimer' = "fired"]_vars

\* The timer fired after captions had been shown: the preview still holds
\* the last text, the formatter is empty.
C15_Witness ==
  /\ InactivityCleared
  /\ preview.text # <<>>

\* C16: a processAndDisplay call makes one call to the device sink and one
\* preview broadcast, both with the cleaned display text; the preview's
\* lines are that text split on newlines and its isFinal is the event's;
\* the device call lasts 20000 ms for a final and has no duration for an
\* interim.
C16_OneEmissionPerEvent ==
  call.op = "processAndDisplay" =>
    /\ emitted.glasses = 1
    /\ emitted.preview = 1
    /\ glasses.text = cleanTranscriptText(result.displayText)
    /\ preview.text = glasses.text
    /\ preview.lines = Split(glasses.text)
    /\ preview.isFinal = call.isFinal
    /\ glasses.durationMs = IF call.isFinal THEN <<20000>> ELSE <<>>

\* An interim was shown on several lines, with no duration.
C16_Witness ==
  /\ call.op = "processAndDisplay"
  /\ ~call.isFinal
  /\ glasses.durationMs = <<>>
  /\ Len(preview.lines) >= 2
  /\ preview.text = glasses.text

\* The turn flag processAndDisplay passes for an event of speakerId.
FlagFor(speakerId) ==
  IF SpeakerChanged(lastSpeakerId, speakerId) THEN "true" ELSE "false"

\* C17: when showTextWall or an SSE client's send throws while an event is
\* processed, nothing propagates: the formatter is left as the event leaves
\* it when the sinks work, the preview is broadcast and reaches every client
\* whose send did not throw, the inactivity timer is armed, and the call
\* that placed the event in the transcript list still suspends for its
\* display.
C17_SinkFailureIsContained ==
  [][/\ (call'.op = "processAndDisplay" /\ emitted'.threw # {}) =>
          \E i \in DOMAIN awaiting :
            LET data == awaiting[i]
            IN /\ awaiting' = RemoveAt(awaiting, i)
               /\ ~call'.threw
               /\ formatter' = processTranscription(formatter, data.text,
                                 data.isFinal, data.speakerId,
                                 FlagFor(data.speakerId))
               /\ result' = processTranscriptionResult(formatter, data.text,
                              data.isFinal, data.speakerId,
                              FlagFor(data.speakerId))
               /\ emitted'.preview = 1
               /\ preview'.text = cleanTranscriptText(result'.displayText)
               /\ preview'.isFinal = data.isFinal
               /\ emitted'.receivers = sseClients \ emitted'.threw
               /\ inactivityTimer' = "pending"
     /\ (call'.op = "handleTranscription" /\ emitted'.threw # {}) =>
          /\ ~call'.threw
          /\ emitted'.receivers = sseClients \ emitted'.threw
          /\ Len(awaiting') = Len(awaiting) + 1]_vars

\* The device and one of two clients threw while a final was processed: the
\* other client got the preview, the final is stored, the timer is armed.
C17_Witness ==
  /\ call.op = "processAndDisplay"
  /\ call.isFinal
  /\ ~call.threw
  /\ "glasses" \in emitted.threw
  /\ emitted.threw \cap sseClients # {}
  /\ emitted.receivers # {}
  /\ History # <<>>
  /\ preview.text # glasses.text
  /\ inactivityTimer = "pending"

\* The display of the stored history of f alone, in its window.
HistoryDisplayOf(f) ==
  wrapAndFormat(f, buildDisplayText(f, <<>>, Undefined, FALSE))

HistoryDisplay == HistoryDisplayOf(formatter)

\* C18: an event whose text is null, empty or whitespace only goes through
\* handleTranscription without an error and suspends for its display; its
\* processAndDisplay raises no error either and emits the display built
\* from the stored history.
C18_BlankEventTolerated ==
  /\ (call.op = "handleTranscription" /\ CleanText(call.text) = <<>>)
       => ~call.threw /\ awaiting # <<>>
  /\ (call.op = "processAndDisplay" /\ CleanText(call.text) = <<>>)
       => /\ ~call.threw
          /\ emitted.glasses = 1
          /\ emitted.preview = 1
          /\ call.isFinal => result = HistoryDisplay

\* The part that holds: a whitespace-only event is placed in the transcript
\* list, suspends and is displayed from the stored history, which it leaves
\* as it was.
C18_WhitespaceEventTolerated ==
  [][/\ (call'.op = "handleTranscription" /\ call'.text # NullText)
          => ~call'.threw /\ Len(awaiting') = Len(awaiting) + 1
     /\ (call'.op = "processAndDisplay" /\ CleanText(call'.text) = <<>>)
          => /\ ~call'.threw
             /\ getFinalTranscriptHistory(formatter') = History
             /\ emitted'.glasses = 1
             /\ emitted'.preview = 1
             /\ glasses'.text = cleanTranscriptText(result'.displayText)
             /\ call'.isFinal => result' = HistoryDisplayOf(formatter')]_vars

\* C19: processAndDisplay is called for the events in the order in which
\* handleTranscription received them: the call resumed is the one that has
\* been suspended longest.
C19_DisplayedInArrivalOrder ==
  [][call'.op = "processAndDisplay"
       => awaiting # <<>> /\ awaiting' = Tail(awaiting)]_vars

\* The part that holds: processAndDisplay runs to completion in one step of
\* the event loop, for exactly one suspended call, which it removes.
C19_NoOverlap ==
  [][call'.op = "processAndDisplay"
       => \E i \in DOMAIN awaiting :
            /\ awaiting' = RemoveAt(awaiting, i)
            /\ call'.text = awaiting[i].text
            /\ call'.isFinal = awaiting[i].isFinal]_vars

\* C20: no transcription event is processed while updateSettings or
\* updateProfile is between its snapshot of the history and its return: a
\* processAndDisplay step starts and ends with no rebuild on the stack.
\* When the rebuild returns, the new formatter's history is the snapshot,
\* entry for entry, and the refresh has been sent to the preview.  So,
\* whenever no rebuild is running, the history holds the finals processed
\* so far (the newest MaxCapacity of them) in the order they were
\* processed: those from before a change are kept, and a final processed
\* after it comes after the replayed entries.
C20_RebuildIsAtomic ==
  /\ [][/\ call'.op = "processAndDisplay"
             => rebuild.pc = "idle" /\ rebuild'.pc = "idle"
        /\ rebuild.pc # "idle" /\ rebuild'.pc = "idle"
             => /\ getFinalTranscriptHistory(formatter')
                     = rebuild.previousHistory
                /\ emitted'.preview = 1
        /\ call'.op = "processAndDisplay" /\ call'.isFinal
             => EntryTexts(getFinalTranscriptHistory(formatter'))
                  = SliceFromEnd(EntryTexts(History)
                                   \o <<CleanText(call'.text)>>,
                                 MaxCapacity)]_vars
  /\ [](rebuild.pc = "idle" => EntryTexts(History) = processed)

\* A profile change that replayed the one final "a" has returned, and the
\* final "b" processed after it stands behind the replayed entry.
C20_Witness ==
  /\ rebuild.pc = "idle"
  /\ rebuild.op = "updateProfile"
  /\ EntryTexts(rebuild.previousHistory) = << <<"a">> >>
  /\ call.op = "processAndDisplay"
  /\ call.isFinal
  /\ EntryTexts(History) = << <<"a">>, <<"b">> >>

\* C21: at every reachable formatter, an interim with any text marks the
\* partial as opening a speaker turn if speakerChanged is true, or if a
\* speakerId is present and differs from the tracked one.
C21_InterimMarksTurn ==
  \A text \in FormatterTexts, speakerId \in OptSpeakerIds,
     speakerChanged \in OptBooleans :
    (\/ Truthy(speakerChanged)
     \/ speakerId # Undefined /\ speakerId # formatter.partialSpeakerId)
      => processTranscription(formatter, text, FALSE, speakerId,
                              speakerChanged).partialHadSpeakerChange

\* C21, for the interims that carry a speaker id: speakerChanged = true or
\* an id other than the tracked one marks the partial and tracks the id.
C21_InterimWithSpeakerMarksTurn ==
  \A text \in FormatterTexts, speakerId \in SpeakerIds,
     speakerChanged \in OptBooleans :
    LET f1 == processTranscription(formatter, text, FALSE, speakerId,
                                   speakerChanged)
    IN (Truthy(speakerChanged) \/ speakerId # formatter.partialSpeakerId)
         => f1.partialHadSpeakerChange /\ f1.partialSpeakerId = speakerId

\* C21, second half: once the partial is marked, a later interim with the
\* same speaker id (or none) and speakerChanged false or absent keeps the
\* mark and the tracked id, and its display text ends with the labelled
\* partial.
C21_MarkPersists ==
  formatter.partialHadSpeakerChange =>
    \A text \in FormatterTexts,
       speakerId \in {formatter.partialSpeakerId, Undefined},
       speakerChanged \in {"undefined", "false"} :
      LET f1 == processTranscription(formatter, text, FALSE, speakerId,
                                     speakerChanged)
          labelled == SpeakerLabel(f1.partialSpeakerId) \o CleanText(text)
          displayText == buildDisplayText(f1, CleanText(text),
                                          f1.partialSpeakerId,
                                          f1.partialHadSpeakerChange)
      IN /\ f1.partialHadSpeakerChange
         /\ f1.partialSpeakerId = formatter.partialSpeakerId
         /\ CleanText(text) # <<>>
              => SliceFromEnd(displayText, Len(labelled)) = labelled

\* The lines the entries make: an entry flagged as opening a turn and
\* carrying a speaker id starts a line with its label, every other entry
\* joins the line before it after one space.
RECURSIVE TurnLines(_, _)
TurnLines(entries, lines) ==
  IF entries = <<>> THEN lines
  ELSE LET entry == Head(entries)
       IN IF entry.hadSpeakerChange /\ entry.speakerId # Undefined
          THEN TurnLines(Tail(entries),
                         Append(lines, <<"[", entry.speakerId, "]", ":", " ">>
                                         \o entry.text))
          ELSE IF lines = <<>>
          THEN TurnLines(Tail(entries), <<entry.text>>)
          ELSE TurnLines(Tail(entries),
                         [lines EXCEPT ![Len(lines)] =
                            @ \o <<" ">> \o entry.text])

\* Partial texts after trimming, none included.
PartialTexts == {<<>>, <<"a">>, <<"b", "c", "d", "e", "f">>}

\* C22: at every reachable formatter and for every partial (none, or a text
\* with any speaker id and turn flag), the display text built from the
\* history and the partial is, line by line, what the entries make: each
\* entry flagged as opening a turn and carrying a speaker id stands as
\* `[speakerId]: text` at the start of a line, after a line break unless it
\* is the first content; every other entry follows the content before it
\* after exactly one space, with no line break.
C22_LabelsStartLines ==
  \A partialText \in PartialTexts, partialSpeakerId \in OptSpeakerIds,
     partialSpeakerChanged \in BOOLEAN :
    LET entries == History \o
                     (IF partialText = <<>> THEN <<>>
                      ELSE <<[text |-> partialText,
                              speakerId |-> partialSpeakerId,
                              hadSpeakerChange |-> partialSpeakerChanged]>>)
        displayText == buildDisplayText(formatter, partialText,
                                        partialSpeakerId,
                                        partialSpeakerChanged)
    IN /\ displayText = Join(TurnLines(entries, <<>>), <<"\n">>)
       /\ entries # <<>> => Split(displayText) = TurnLines(entries, <<>>)

\* An unlabelled final followed by a final that opens the turn of speaker
\* "1": the second stands on a line of its own.
C22_Witness ==
  /\ Len(History) = 2
  /\ ~History[1].hadSpeakerChange
  /\ History[2].hadSpeakerChange
  /\ History[2].speakerId = "1"
  /\ Len(Split(buildDisplayText(formatter, <<"a">>, "1", FALSE))) = 2

\* C23: a processAndDisplay step hands the formatter the event with
\* speakerChanged = true exactly when the event's speaker id is present and
\* differs from lastSpeakerId, and then lastSpeakerId is that id; an event
\* without a speaker id passes false and leaves lastSpeakerId alone.  The
\* inactivity callback resets lastSpeakerId and no other operation writes
\* it, so lastSpeakerId is the speaker id of the most recent event that
\* carried one since the last inactivity reset.
C23_LastSpeakerTracked ==
  [][/\ call'.op = "processAndDisplay" =>
          LET speakerId == call'.speakerId
              flag == IF speakerId # Undefined /\ speakerId # lastSpeakerId
                      THEN "true" ELSE "false"
          IN /\ formatter' = processTranscription(formatter, call'.text,
                                                  call'.isFinal, speakerId,
                                                  flag)
             /\ result' = processTranscriptionResult(formatter, call'.text,
                                                     call'.isFinal, speakerId,
                                                     flag)
             /\ lastSpeakerId' = IF speakerId # Undefined THEN speakerId
                                 ELSE lastSpeakerId
     /\ call'.op = "inactivityExpired" => lastSpeakerId' = Undefined
     /\ call'.op \notin {"processAndDisplay", "inactivityExpired"}
          => lastSpeakerId' = lastSpeakerId]_vars

\* Speakers "1" and "2" have spoken in turn, then an event without a
\* speaker id was processed: the last-seen speaker is still "2".
C23_Witness ==
  /\ call.op = "processAndDisplay"
  /\ call.speakerId = Undefined
  /\ lastSpeakerId = "2"
  /\ Len(History) = 2
  /\ History[1].speakerId = "1" /\ History[1].hadSpeakerChange
  /\ History[2].speakerId = "2" /\ History[2].hadSpeakerChange

\* C24: in every reachable state the applied line count lies between 2 and
\* the current profile's maxLines and is the line count of the formatter in
\* use; an updateSettings step with requested count n sets it to
\* min(max(2, n), profile.maxLines).
C24_LinesClamped ==
  /\ [](/\ currentMaxLines >= 2
        /\ currentMaxLines <= Profile(currentProfile).maxLines
        /\ formatter.maxLines = currentMaxLines)
  /\ [][call'.op = "updateSettings" =>
          LET n == call'.settings.numberOfLines
              atLeastTwo == IF n < 2 THEN 2 ELSE n
              limit == Profile(currentProfile).maxLines
          IN currentMaxLines' = IF atLeastTwo > limit THEN limit
                                ELSE atLeastTwo]_vars

\* On a Z100 (3 lines at most) with a stored final, 9 lines were requested
\* and 3 applied.
C24_Witness ==
  /\ call.op = "updateSettings"
  /\ call.settings.numberOfLines = 9
  /\ currentProfile = "z100"
  /\ currentMaxLines = 3
  /\ History # <<>>

\* The share of the profile's width a width setting stands for, in percent.
WidthPercent(widthSetting) ==
  CASE widthSetting = 0 -> 70
    [] widthSetting = 1 -> 85
    [] widthSetting = 2 -> 100

C26_SingleTimer ==
  /\ [](Cardinality(timerQueue) <= 1)
  /\ [][/\ call'.op = "processAndDisplay" /\ ~call'.threw
             => timerQueue' = {[remaining |-> TimeoutTicks, current |-> TRUE]}
        /\ call'.op = "inactivityExpired"
             => /\ sinceEvent = TimeoutTicks
                /\ timerQueue' = {}]_vars

\* A second final was processed while the timer of the first was running:
\* one timer is pending, with the full timeout ahead.
C26_Witness ==
  /\ call.op = "processAndDisplay"
  /\ ~call.threw
  /\ Len(History) = 2
  /\ inactivityTimer = "pending"
  /\ timerQueue = {[remaining |-> TimeoutTicks, current |-> TRUE]}
  /\ sinceEvent = 0

\* The length of the speaker label `[id]:` a line begins with, 0 when it
\* begins with none.
LabelLen(line) ==
  LET closing == PositionsIn(line, {"]"})
  IN IF line = <<>> \/ Head(line) # "[" \/ closing = {} THEN 0
     ELSE LET k == MinOf(closing)
          IN IF k >= 3 /\ Len(line) > k /\ line[k + 1] = ":" THEN k + 1
             ELSE 0

\* The content of a line: what follows its label, or the whole line.
ContentOf(line) == TrimStart(SubSeq(line, LabelLen(line) + 1, Len(line)))

\* The lines handed to showOnGlasses and the lines it emitted.
LinesBefore == Split(result.displayText)
LinesEmitted == Split(glasses.text)

EventShown == call.op = "processAndDisplay" /\ ~call.threw

\* C27: in the text an event emits to the device and to the preview, each
\* line that begins with a speaker label `[id]:` keeps the label, no
\* line's content begins with one of . , ; : ! ?, and there are as many
\* lines as before the cleanup.
C27_NoLeadingPunctuation ==
  EventShown =>
    /\ preview.text = glasses.text
    /\ preview.lines = LinesEmitted
    /\ Len(LinesEmitted) = Len(LinesBefore)
    /\ \A i \in DOMAIN LinesEmitted :
         LET n == LabelLen(LinesBefore[i])
         IN /\ SubSeq(LinesEmitted[i], 1, n) = SubSeq(LinesBefore[i], 1, n)
            /\ ContentOf(LinesEmitted[i]) # <<>>
                 => Head(ContentOf(LinesEmitted[i])) \notin PunctuationChars

\* C27, what holds for every emitted text: the labels and the number of
\* lines are kept, both sinks get the same lines, and the content of an
\* emitted line begins with punctuation only where the label is not a
\* number, or where the leading punctuation of the line was followed by
\* white space and more punctuation.
C27_LeadingRunStripped ==
  EventShown =>
    /\ preview.text = glasses.text
    /\ preview.lines = LinesEmitted
    /\ Len(LinesEmitted) = Len(LinesBefore)
    /\ \A i \in DOMAIN LinesEmitted :
         LET n == LabelLen(LinesBefore[i])
             before == ContentOf(LinesBefore[i])
             afterRun == DropWhile(before, PunctuationChars)
         IN /\ SubSeq(LinesEmitted[i], 1, n) = SubSeq(LinesBefore[i], 1, n)
            /\ (/\ ContentOf(LinesEmitted[i]) # <<>>
                /\ Head(ContentOf(LinesEmitted[i])) \in PunctuationChars)
                 => \/ n > 0 /\ LinesBefore[i][2] \notin DigitChars
                    \/ /\ afterRun # before
                       /\ afterRun # <<>>
                       /\ Head(afterRun) \in WhitespaceChars
                       /\ Head(TrimStart(afterRun)) \in PunctuationChars

\* The positions of the entries of utterance u in a transcript list.
EntriesOf(ts, u) == {i \in DOMAIN ts : ts[i].utteranceId = u}

\* The step is a handleTranscription call that got past broadcast; its
\* event is the last one suspended.
Handled == call'.op = "handleTranscription" /\ ~call'.threw
HandledEvent == awaiting'[Len(awaiting')]

C29_SingleTrailingInterim ==
  /\ [](\A i \in DOMAIN transcripts :
          ~transcripts[i].isFinal => i = Len(transcripts))
  /\ [][Handled =>
          LET data == HandledEvent
              kept == Finals(transcripts)
          IN /\ transcripts'[Len(transcripts')] = createEntry(data)
             /\ data.isFinal =>
                  /\ Interims(transcripts') = <<>>
                  /\ transcripts' =
                       Slice(Append(kept, createEntry(data)), -MaxTranscripts)
             /\ ~data.isFinal => transcripts' = Append(kept, createEntry(data))
       ]_vars

\* C29: a final came while an interim was pending and took its place.
C29_Witness ==
  /\ call.op = "handleTranscription"
  /\ call.isFinal
  /\ Len(transcripts) = 2
  /\ transcripts[1] = [id |-> "uuid", utteranceId |-> "null",
                       speaker |-> formatSpeakerId(Undefined),
                       text |-> <<"a">>, isFinal |-> TRUE]
  /\ transcripts[2].text = <<"b">>
  /\ transcripts[2].isFinal
  /\ Len(awaiting) = 2
  /\ ~awaiting[1].isFinal

\* C30: after any sequence of handleTranscription calls the transcript list
\* holds no more than maxTranscripts entries.
C30_ListBounded == Len(transcripts) <= MaxTranscripts

\* C30, what holds without utteranceIds: no more than maxTranscripts
\* finals, and one interim on top of them at most.
C30_FinalsBounded ==
  /\ Len(Finals(transcripts)) <= MaxTranscripts
  /\ Len(transcripts) <= MaxTranscripts + 1

\* The history entry processAndDisplay(text, true, speakerId) stores when
\* the formatter is f and the last speaker seen is `last`.
FinalEntryOf(f, last, speakerId) ==
  LET flag == IF SpeakerChanged(last, speakerId) THEN "true" ELSE "false"
      h == processTranscription(f, <<"b">>, TRUE, speakerId, flag)
             .finalTranscriptHistory
  IN h[Len(h)]

\* The step is a settings change or a device-profile switch.
Reconfigured == call'.op \in {"updateSettings", "updateProfile"}

\* C31: when a settings change or a profile switch comes after an interim
\* that recorded a speaker id and a turn boundary, the final of the
\* utterance stores the speaker id and hadSpeakerChange it would have
\* stored without the change.
C31_ChangeKeepsPendingTurn ==
  [][(/\ Reconfigured
      /\ formatter.partialSpeakerId # Undefined
      /\ formatter.partialHadSpeakerChange)
       => \A speakerId \in {Undefined, formatter.partialSpeakerId} :
            FinalEntryOf(formatter', lastSpeakerId', speakerId)
              = FinalEntryOf(formatter, lastSpeakerId, speakerId)
    ]_vars

\* C31, what holds: a settings change or a profile switch that comes when
\* no interim's speaker tracking is pending does not alter the entry of the
\* next final, whatever its speaker.
C31_ChangeBetweenUtterancesIsNeutral ==
  [][(/\ Reconfigured
      /\ formatter.partialSpeakerId = Undefined
      /\ ~formatter.partialHadSpeakerChange)
       => \A speakerId \in OptSpeakerIds :
            FinalEntryOf(formatter', lastSpeakerId', speakerId)
              = FinalEntryOf(formatter, lastSpeakerId, speakerId)
    ]_vars

\* The step belongs to a setter of the SettingsManager: the call itself,
\* its applyToProcessor or its broadcast.
SetterStep ==
  call'.op \in {"setDisplayLines", "setDisplayWidth", "setLanguage",
                "applyToProcessor", "broadcastSettingsUpdate"}

\* C32: setDisplayWidth, setDisplayLines and setLanguage leave the break
\* mode of the DisplayManager and of its formatter as it was.
C32_SettersKeepBreakMode ==
  [][SetterStep =>
       /\ currentWordBreaking' = currentWordBreaking
       /\ formatter'.breakMode = formatter.breakMode]_vars

\* C32, what holds: a setter that passes its validation ends with
\* character breaking on, whatever the mode was; one that throws changes
\* nothing.
C32_SettersTurnBreakingOn ==
  [][SetterStep =>
       IF call'.op = "applyToProcessor"
       THEN currentWordBreaking' /\ formatter'.breakMode = "character"
       ELSE /\ currentWordBreaking' = currentWordBreaking
            /\ formatter'.breakMode = formatter.breakMode]_vars

\* The stored settings have been applied at least once and no setter is
\* between its write and its applyToProcessor.
SettingsApplied ==
  /\ settingsTask # "apply"
  /\ settingsTask = "broadcast" \/ settingsBroadcast # NoSettingsUpdate

\* C33: after any sequence of settings changes and profile switches the
\* applied line count is the most recently requested one clamped to
\* [2, maxLines of the current profile].
C33_LinesFollowRequest ==
  SettingsApplied =>
    currentMaxLines = ClampLines(getDisplayLines(storage), currentProfile)

\* C33, what holds: the applied line count is the requested one, clamped,
\* when applyToProcessor returns, and never more than that afterwards; a
\* profile switch takes the minimum of the applied count and the new
\* profile's maxLines.
C33_LinesOnlyShrink ==
  /\ [](SettingsApplied =>
          /\ currentMaxLines
               <= ClampLines(getDisplayLines(storage), currentProfile)
          /\ currentMaxLines >= 2)
  /\ [][/\ call'.op = "applyToProcessor" =>
             currentMaxLines'
               = ClampLines(getDisplayLines(storage), currentProfile)
        /\ call'.op = "updateProfile" =>
             currentMaxLines'
               = Min(currentMaxLines, Profile(currentProfile').maxLines)
       ]_vars

\* C34: when the concurrent setters have all completed, the width setting
\* and the line count applied in the DisplayManager are those persisted in
\* storage, the line count clamped to the profile.
C34_AppliedIsPersisted ==
  (setters = NoSetters /\ settingsBroadcast # NoSettingsUpdate) =>
    /\ currentWidthSetting = getDisplayWidth(storage)
    /\ currentMaxLines = ClampLines(getDisplayLines(storage), currentProfile)

\* C34, what holds: setters that run one after the other leave the applied
\* settings equal to the persisted ones.
C34_SequentialSettersApplyStored ==
  (settingsTask = "idle" /\ settingsBroadcast # NoSettingsUpdate) =>
    /\ currentWidthSetting = getDisplayWidth(storage)
    /\ currentMaxLines = ClampLines(getDisplayLines(storage), currentProfile)

\* C35: once dispose() has run, no inactivity timer of the DisplayManager
\* is pending and no step sends anything to the device or to a preview
\* client, also when a handleTranscription call was suspended at its await
\* when dispose ran.
C35_DisposedSessionIsSilent ==
  /\ [](disposed => timerQueue = {})
  /\ [][disposed => emitted'.glasses = 0 /\ emitted'.receivers = {}]_vars

\* C35, what holds: dispose() leaves no timer pending, no event is
\* delivered afterwards, and with no call suspended and no timer pending
\* a disposed session only sees time pass.
C35_DisposeClearsTimer ==
  /\ [][call'.op = "dispose" => timerQueue' = {}]_vars
  /\ [][disposed => call'.op # "handleTranscription"]_vars
  /\ [][(disposed /\ awaiting = <<>> /\ timerQueue = {})
         => (call'.op = "tick" /\ timerQueue' = {} /\ awaiting' = <<>>)]_vars

\* C36: a disposed UserSession whose initialize() has finished holds no
\* registered transcription subscription, and no UserSession ever holds
\* more than one.
C36_DisposedHasNoSubscription ==
  \A i \in DOMAIN app.sessions :
    /\ app.sessions[i].subscriptions <= 1
    /\ (app.sessions[i].disposed /\ app.sessions[i].init = "done")
         => app.sessions[i].subscriptions = 0

\* C36, what holds: initialize() leaves at most one subscription
\* registered, and dispose() of a session whose initialize() has finished
\* leaves none.
C36_DisposeAfterInitializeUnsubscribes ==
  /\ [](\A i \in DOMAIN app.sessions : app.sessions[i].subscriptions <= 1)
  /\ [][\A j \in DOMAIN app.sessions :
          (/\ call'.op = "onStop"
           /\ app.sessions[j].init = "done"
           /\ ~app.sessions[j].disposed
           /\ app'.sessions[j].disposed)
            => app'.sessions[j].subscriptions = 0]_vars

\* C37: onStop for a session disposes and unregisters only the UserSession
\* its own onSession created: every other UserSession is left as it was
\* and, when it was the registered one, stays registered.
C37_StopDisposesOwnSession ==
  [][call'.op = "onStop" =>
       \A j \in DOMAIN app.sessions :
         j # call'.value =>
           /\ app'.sessions[j] = app.sessions[j]
           /\ app.registry = <<j>> => app'.registry = <<j>>]_vars

\* C37, what holds: onStop disposes and unregisters whichever UserSession
\* is registered for the user; it is the stopped session's own when no
\* other session of the user was started since.
C37_StopDisposesRegisteredSession ==
  [][call'.op = "onStop" =>
       /\ app'.registry = <<>>
       /\ \A j \in DOMAIN app.sessions :
            IF app.registry = <<j>>
            THEN /\ app'.sessions[j].disposed
                 /\ j = Len(app.sessions)
            ELSE j # call'.value => app'.sessions[j] = app.sessions[j]]_vars

\* C38: while a stream is open and the user has a registered UserSession,
\* the stream's client is in that session's client set.
C38_OpenStreamFollowsSession ==
  \A s \in Streams :
    (app.streams[s] # 0 /\ app.registry # <<>>)
      => s \in app.sessions[app.registry[1]].clients

\* C38, what holds: an open stream's client is in the client set of the
\* session its handler captured when it was opened, until that session is
\* disposed; it is never in the set of another session.
C38_StreamStaysWithCapturedSession ==
  \A s \in Streams : \A j \in DOMAIN app.sessions :
    /\ (app.streams[s] = j /\ ~app.sessions[j].disposed)
         => s \in app.sessions[j].clients
    /\ s \in app.sessions[j].clients => app.streams[s] = j

(***************************************************************************)
(* Properties of the useTranscripts hook.                                  *)
(***************************************************************************)
\* The pending timer reconnectTimeoutRef refers to, if any.
CurrentTimers == SelectSeq(hook.timers, LAMBDA t : t.current)

\* onerror of an EventSource that had opened.
ErrorAfterOpen == hook.es = "open" /\ call'.op = "onerror"

\* C39: after the EventSource opened the attempt counter is back at 0: the
\* next connection error schedules the reconnect for attempt 0 with the
\* initial delay of 1000 ms, so that the attempts made before the open do
\* not count toward the limit of 20.
C39_ErrorAfterOpenStartsOver ==
  [][ErrorAfterOpen =>
       /\ hook.reconnectAttempt = 0
       /\ hook'.reconnectAttempt = 0
       /\ \E i \in DOMAIN hook'.timers :
            /\ hook'.timers[i].current
            /\ hook'.timers[i].attempt = 0
            /\ hook'.timers[i].delay = INITIAL_RETRY_DELAY_MS]_vars

\* C39, what the hook does: onopen sets the displayed counter to 0, and the
\* next error of that EventSource schedules the reconnect for the attempt
\* of the connect() call that made it, with that attempt's delay, or sets
\* the permanent error when that attempt is at the limit.
C39_ErrorAfterOpenKeepsAttempt ==
  /\ [](hook.es = "open" => hook.reconnectAttempt = 0 /\ hook.connected)
  /\ [][ErrorAfterOpen =>
         IF hook.esAttempt >= MAX_RECONNECT_ATTEMPTS
         THEN hook'.error = "permanent" /\ hook'.timers = hook.timers
         ELSE /\ hook'.reconnectAttempt = hook.esAttempt
              /\ \E i \in DOMAIN hook'.timers :
                   /\ hook'.timers[i].current
                   /\ hook'.timers[i].attempt = hook.esAttempt
                   /\ hook'.timers[i].delay = getRetryDelay(hook.esAttempt)]_vars

\* C39, the case: an EventSource opened by a later attempt has failed, and
\* the reconnect is scheduled with more than the initial delay.
C39_Witness ==
  /\ call.op = "onerror"
  /\ hook.esAttempt > 0
  /\ hook.reconnectAttempt = hook.esAttempt
  /\ \E i \in DOMAIN CurrentTimers : CurrentTimers[i].delay > INITIAL_RETRY_DELAY_MS

\* C40: under consecutive failures the reconnect for attempt k is
\* scheduled after min(1000 * 2^k, 30000) ms, at most one reconnect timer
\* is pending at a time, and after 20 failed attempts reconnection stops
\* for good: connected is false, the permanent error is set, and no
\* reconnect timer or heartbeat check remains that would connect again.
C40_BackoffThenStopForGood ==
  /\ \A i \in DOMAIN hook.timers :
       hook.timers[i].delay = getRetryDelay(hook.timers[i].attempt)
  /\ Len(hook.timers) <= 1
  /\ hook.error = "permanent" =>
       ~hook.connected /\ hook.timers = <<>> /\ ~hook.heartbeat

\* C40, what holds: every timer has the delay of its attempt, below the
\* limit; the permanent error comes with connected false; while every
\* pending timer is the one reconnectTimeoutRef refers to, every step but
\* a heartbeat timeout leaves at most one timer pending; and a permanent
\* stop with no connect() running and no heartbeat check left stays.
C40_BackoffDelays ==
  /\ [](\A i \in DOMAIN hook.timers :
          /\ hook.timers[i].attempt < MAX_RECONNECT_ATTEMPTS
          /\ hook.timers[i].delay = getRetryDelay(hook.timers[i].attempt)
          /\ hook.timers[i].delay <= MAX_RETRY_DELAY_MS)
  /\ [](hook.error = "permanent" => ~hook.connected)
  /\ [][(call'.op # "heartbeatTimeout" /\ Len(CurrentTimers) = Len(hook.timers)) =>
          Len(hook'.timers) <= 1 /\ \A i \in DOMAIN hook'.timers : hook'.timers[i].current]_vars
  /\ [][(/\ hook.error = "permanent"
          /\ hook.pc = "idle"
          /\ hook.timers = <<>>
          /\ ~hook.heartbeat) => hook' = hook]_vars

\* C40, the case: the attempt at the limit has failed and the permanent
\* error is set.
C40_Witness ==
  /\ hook.error = "permanent"
  /\ hook.pc = "idle"
  /\ hook.attempt = MAX_RECONNECT_ATTEMPTS
  /\ hook.timers = <<>>
  /\ ~hook.heartbeat

====
